---- MODULE Spec2Model ----
(***************************************************************************)
(* The Pintos file-system core: the write-back buffer cache                *)
(* (buffer_cache.c), the indexed inode layer (inode.c) and the parts of    *)
(* the facade and the system calls (filesys.c, syscall.c) that open and    *)
(* close inodes.                                                           *)
(*                                                                         *)
(* Sizes are scaled down.  One cell of a sector stands for one             *)
(* block_sector_t word, and a file offset counts cells, so that            *)
(* sizeof (block_sector_t) = 1 and                                         *)
(* INDIRECT_BLOCK_ENTRIES = BLOCK_SECTOR_SIZE.  The on-disk inode keeps    *)
(* its bit-exact layout: the direct table, then indirect_block_sec,        *)
(* double_indirect_block_sec, length, magic and is_dir, filling exactly    *)
(* one sector.                                                             *)
(***************************************************************************)
EXTENDS Integers, Sequences, FiniteSets, TLC

\* ------------------------------------------------------------------ sizes

\* Direct pointers of an on-disk inode (123 in the source).
DIRECT_BLOCK_ENTRIES == 1

\* Slots of the buffer cache (64 in the source).
BUFFER_CACHE_ENTRY_NB == 2

\* Sectors of the file-system device.
BLOCK_SECTOR_COUNT == 18

\* Words of a sector: struct inode_disk is DIRECT_BLOCK_ENTRIES + 5 words and
\* must be exactly one sector long (ASSERT in inode_create).
BLOCK_SECTOR_SIZE == DIRECT_BLOCK_ENTRIES + 5

INDIRECT_BLOCK_ENTRIES == BLOCK_SECTOR_SIZE

INODE_MAGIC == 1229869892

FREE_MAP_SECTOR == 0

ROOT_DIR_SECTOR == 1

Sectors == 0 .. BLOCK_SECTOR_COUNT - 1

Slots == 0 .. BUFFER_CACHE_ENTRY_NB - 1

\* ------------------------------------------------------------ small helpers

Min(S) == CHOOSE x \in S : \A y \in S : x <= y

\* F applied to the value v: the rest of a function's body, F, reads the
\* result v of a call as often as it needs while the call is made once.
Let(v, F(_)) == F(v)

MinOf(a, b) == IF a < b THEN a ELSE b

Zeroes(n) == [i \in 1 .. n |-> 0]

\* blk[i] with the C index i (from 0).
At(blk, i) == blk[i + 1]

\* memcpy (blk + ofs, src, Len(src))
Patch(blk, ofs, src) ==
  [i \in 1 .. Len(blk) |->
     IF i > ofs /\ i <= ofs + Len(src) THEN src[i - ofs] ELSE blk[i]]

\* map_table_offset (index), in words
map_table_offset(index) == index

\* ------------------------------------------- on-disk inode (struct inode_disk)

LENGTH_WORD == DIRECT_BLOCK_ENTRIES + 2

direct_map_table(h, i) == At(h, i)

indirect_block_sec(h) == At(h, DIRECT_BLOCK_ENTRIES)

double_indirect_block_sec(h) == At(h, DIRECT_BLOCK_ENTRIES + 1)

length_of(h) == At(h, LENGTH_WORD)

is_dir_of(h) == At(h, DIRECT_BLOCK_ENTRIES + 4)

SetWord(h, i, v) == [h EXCEPT ![i + 1] = v]

\* ------------------------------------------------------------ buffer cache
\* The machine state the sequential operators thread through:
\*   bh    buffer_head[]      hand  clock_hand      dev  the block device
\*   fm    the free-map (the set of allocated sectors)
\*   rel   the sectors handed to free_map_release, in order
\*   panic an ASSERT or PANIC was hit

EmptyHead ==
  [sector |-> -1, valid |-> FALSE, dirty |-> FALSE, clock_bit |-> FALSE,
   data |-> Zeroes(BLOCK_SECTOR_SIZE)]

bc_lookup(bh, sector) ==
  LET hits == {i \in Slots : bh[i].sector = sector}
  IN IF hits = {} THEN -1 ELSE Min(hits)

\* A clock loop that takes the slot under the hand whatever its clock bit.
clock_scan_first(bh, hand) ==
  LET idx == IF hand = BUFFER_CACHE_ENTRY_NB THEN 0 ELSE hand
      next == IF hand + 1 = BUFFER_CACHE_ENTRY_NB THEN 0 ELSE hand + 1
  IN [bh |-> [bh EXCEPT ![idx].clock_bit = TRUE], hand |-> next, idx |-> idx]

\* The clock loop of bc_select_victim: [bh, hand, idx].
RECURSIVE clock_scan(_, _)
clock_scan(bh, hand) ==
  LET idx == IF hand = BUFFER_CACHE_ENTRY_NB THEN 0 ELSE hand
      next == IF hand + 1 = BUFFER_CACHE_ENTRY_NB THEN 0 ELSE hand + 1
  IN IF bh[idx].clock_bit
     THEN clock_scan([bh EXCEPT ![idx].clock_bit = FALSE], next)
     ELSE [bh |-> [bh EXCEPT ![idx].clock_bit = TRUE], hand |-> next, idx |-> idx]

\* block_write (fs_device, sector, data): past the end of the device it panics.
block_write(m, sector, data) ==
  IF sector \in Sectors
  THEN [m EXCEPT !.dev[sector] = data]
  ELSE [m EXCEPT !.panic = TRUE]

bc_flush_entry(m, idx) ==
  LET w == block_write(m, m.bh[idx].sector, m.bh[idx].data)
  IN [w EXCEPT !.bh[idx].dirty = FALSE]

\* bc_select_victim without the write-back of a dirty victim.
bc_select_victim_no_flush(m) ==
  Let(clock_scan(m.bh, m.hand),
      LAMBDA c :
        [m |-> [m EXCEPT !.bh = [c.bh EXCEPT ![c.idx].dirty = FALSE,
                                              ![c.idx].valid = FALSE,
                                              ![c.idx].sector = -1],
                         !.hand = c.hand],
         idx |-> c.idx])

\* [m, idx]: the victim slot, written back when dirty, then emptied.
bc_select_victim(m) ==
  Let(clock_scan(m.bh, m.hand),
      LAMBDA c :
        Let(IF c.bh[c.idx].dirty
            THEN bc_flush_entry([m EXCEPT !.bh = c.bh, !.hand = c.hand], c.idx)
            ELSE [m EXCEPT !.bh = c.bh, !.hand = c.hand],
            LAMBDA m2 :
              [m |-> [m2 EXCEPT !.bh[c.idx].dirty = FALSE,
                                !.bh[c.idx].valid = FALSE,
                                !.bh[c.idx].sector = -1],
               idx |-> c.idx]))

\* block_read (fs_device, sector, p->data) into slot idx.
block_read(m, sector, idx) ==
  IF sector \in Sectors
  THEN [m EXCEPT !.bh[idx].data = m.dev[sector]]
  ELSE [m EXCEPT !.panic = TRUE]

\* bc_read: the machine after the call; the bytes copied out are Cached.
bc_read(m, sector_idx) ==
  LET hit == bc_lookup(m.bh, sector_idx)
  IN IF hit # -1
     THEN [m EXCEPT !.bh[hit].clock_bit = TRUE]
     ELSE Let(bc_select_victim(m),
              LAMBDA v :
                [block_read(v.m, sector_idx, v.idx) EXCEPT
                   !.bh[v.idx].dirty = FALSE,
                   !.bh[v.idx].valid = TRUE,
                   !.bh[v.idx].sector = sector_idx,
                   !.bh[v.idx].clock_bit = TRUE])

\* The slot data bc_read / bc_write of sector_idx works on.
Cached(m, sector_idx) ==
  LET hit == bc_lookup(m.bh, sector_idx)
  IN IF hit = -1 THEN Zeroes(BLOCK_SECTOR_SIZE) ELSE m.bh[hit].data

\* bc_write that does not read the sector from the device on a miss.
bc_write_no_read(m, sector_idx, src, sector_ofs) ==
  LET hit == bc_lookup(m.bh, sector_idx)
  IN Let(IF hit # -1 THEN [m |-> m, idx |-> hit] ELSE bc_select_victim(m),
         LAMBDA v :
           [v.m EXCEPT
              !.bh[v.idx].data = Patch(v.m.bh[v.idx].data, sector_ofs, src),
              !.bh[v.idx].dirty = TRUE,
              !.bh[v.idx].valid = TRUE,
              !.bh[v.idx].sector = sector_idx,
              !.bh[v.idx].clock_bit = TRUE])

\* bc_write (sector_idx, src, 0, Len(src), sector_ofs)
bc_write(m, sector_idx, src, sector_ofs) ==
  LET hit == bc_lookup(m.bh, sector_idx)
  IN Let(IF hit # -1 THEN [m |-> m, idx |-> hit] ELSE bc_select_victim(m),
         LAMBDA v :
           Let(IF hit # -1 THEN m ELSE block_read(v.m, sector_idx, v.idx),
               LAMBDA r :
                 [r EXCEPT
                    !.bh[v.idx].data = Patch(r.bh[v.idx].data, sector_ofs, src),
                    !.bh[v.idx].dirty = TRUE,
                    !.bh[v.idx].valid = TRUE,
                    !.bh[v.idx].sector = sector_idx,
                    !.bh[v.idx].clock_bit = TRUE]))

RECURSIVE flush_from(_, _)
flush_from(m, idx) ==
  IF idx = BUFFER_CACHE_ENTRY_NB THEN m
  ELSE flush_from(IF m.bh[idx].dirty THEN bc_flush_entry(m, idx) ELSE m, idx + 1)

bc_flush_all_entries(m) == flush_from(m, 0)

\* ---------------------------------------------------------------- free-map

\* free_map_allocate (1, &sector): the first clear bit, set.  [m, ok, sector]
free_map_allocate(m) ==
  LET free == Sectors \ m.fm
  IN IF free = {}
     THEN [m |-> m, ok |-> FALSE, sector |-> 0]
     ELSE [m |-> [m EXCEPT !.fm = m.fm \cup {Min(free)}], ok |-> TRUE,
           sector |-> Min(free)]

\* free_map_release (sector, 1)
free_map_release(m, sector) ==
  [m EXCEPT !.fm = m.fm \ {sector}, !.rel = Append(m.rel, sector)]

\* -------------------------------------------------------------- inode layer

\* locate_byte with the two indexes of the double-indirect case exchanged.
locate_byte_swapped(pos) ==
  LET pos_sector == pos \div BLOCK_SECTOR_SIZE
      rest == pos_sector - DIRECT_BLOCK_ENTRIES - INDIRECT_BLOCK_ENTRIES
  IN IF pos_sector < DIRECT_BLOCK_ENTRIES
     THEN [directness |-> "NORMAL_DIRECT", index1 |-> pos_sector, index2 |-> 0]
     ELSE IF pos_sector < DIRECT_BLOCK_ENTRIES + INDIRECT_BLOCK_ENTRIES
     THEN [directness |-> "INDIRECT",
           index1 |-> pos_sector - DIRECT_BLOCK_ENTRIES, index2 |-> 0]
     ELSE IF pos_sector
               < DIRECT_BLOCK_ENTRIES
                   + INDIRECT_BLOCK_ENTRIES * (INDIRECT_BLOCK_ENTRIES + 1)
     THEN [directness |-> "DOUBLE_INDIRECT",
           index1 |-> rest % INDIRECT_BLOCK_ENTRIES,
           index2 |-> rest \div INDIRECT_BLOCK_ENTRIES]
     ELSE [directness |-> "OUT_LIMIT", index1 |-> 0, index2 |-> 0]

\* locate_byte (pos, &sec_loc)
locate_byte(pos) ==
  LET pos_sector == pos \div BLOCK_SECTOR_SIZE
      rest == pos_sector - DIRECT_BLOCK_ENTRIES - INDIRECT_BLOCK_ENTRIES
  IN IF pos_sector < DIRECT_BLOCK_ENTRIES
     THEN [directness |-> "NORMAL_DIRECT", index1 |-> pos_sector, index2 |-> 0]
     ELSE IF pos_sector < DIRECT_BLOCK_ENTRIES + INDIRECT_BLOCK_ENTRIES
     THEN [directness |-> "INDIRECT",
           index1 |-> pos_sector - DIRECT_BLOCK_ENTRIES, index2 |-> 0]
     ELSE IF pos_sector
               < DIRECT_BLOCK_ENTRIES
                   + INDIRECT_BLOCK_ENTRIES * (INDIRECT_BLOCK_ENTRIES + 1)
     THEN [directness |-> "DOUBLE_INDIRECT",
           index1 |-> rest \div INDIRECT_BLOCK_ENTRIES,
           index2 |-> rest % INDIRECT_BLOCK_ENTRIES]
     ELSE [directness |-> "OUT_LIMIT", index1 |-> 0, index2 |-> 0]

Panic(m) == [m EXCEPT !.panic = TRUE]

\* byte_to_sector (inode_disk, pos): [m, sec]; sec = 0 when POS has no sector.
byte_to_sector(m, h, pos) ==
  IF pos < length_of(h)
  THEN LET loc == locate_byte(pos)
       IN CASE loc.directness = "NORMAL_DIRECT" ->
                 [m |-> m, sec |-> direct_map_table(h, loc.index1)]
            [] loc.directness = "INDIRECT" ->
                 IF indirect_block_sec(h) = 0
                 THEN [m |-> Panic(m), sec |-> 0]
                 ELSE Let(bc_read(m, indirect_block_sec(h)),
                          LAMBDA r :
                            [m |-> r,
                             sec |-> At(Cached(r, indirect_block_sec(h)),
                                        loc.index1)])
            [] loc.directness = "DOUBLE_INDIRECT" ->
                 IF indirect_block_sec(h) = 0
                 THEN [m |-> Panic(m), sec |-> 0]
                 ELSE Let(bc_read(m, double_indirect_block_sec(h)),
                          LAMBDA r1 :
                            LET l2 == At(Cached(r1, double_indirect_block_sec(h)),
                                         loc.index1)
                            IN IF l2 = 0
                               THEN [m |-> Panic(r1), sec |-> 0]
                               ELSE Let(bc_read(r1, l2),
                                        LAMBDA r2 :
                                          [m |-> r2,
                                           sec |-> At(Cached(r2, l2),
                                                      loc.index2)]))
            [] OTHER -> [m |-> m, sec |-> 0]
  ELSE [m |-> m, sec |-> 0]

\* register_sector that stores the new sector nowhere.
register_sector_nowhere(m, h, new_sector, loc) ==
  [m |-> m, h |-> h, ok |-> TRUE]

\* register_sector (inode_disk, new_sector, sec_loc): [m, h, ok]
register_sector(m, h, new_sector, loc) ==
  CASE loc.directness = "NORMAL_DIRECT" ->
         [m |-> m, h |-> SetWord(h, loc.index1, new_sector), ok |-> TRUE]
    [] loc.directness = "INDIRECT" ->
         IF indirect_block_sec(h) = 0
         THEN LET new_block == SetWord(Zeroes(BLOCK_SECTOR_SIZE), loc.index1,
                                       new_sector)
              IN Let(free_map_allocate(m),
                     LAMBDA a :
                       IF a.ok
                       THEN [m |-> bc_write(a.m, a.sector, new_block, 0),
                             h |-> SetWord(h, DIRECT_BLOCK_ENTRIES, a.sector),
                             ok |-> TRUE]
                       ELSE [m |-> m, h |-> h, ok |-> FALSE])
         ELSE [m |-> bc_write(m, indirect_block_sec(h), <<new_sector>>,
                              map_table_offset(loc.index1)),
               h |-> h, ok |-> TRUE]
    [] loc.directness = "DOUBLE_INDIRECT" ->
         Let(IF double_indirect_block_sec(h) = 0
             THEN free_map_allocate(m)
             ELSE [m |-> m, ok |-> TRUE,
                   sector |-> double_indirect_block_sec(h)],
             LAMBDA a :
               IF ~a.ok
               THEN [m |-> m, h |-> h, ok |-> FALSE]
               ELSE Let(bc_read(IF double_indirect_block_sec(h) = 0
                                THEN bc_write(a.m, a.sector,
                                              Zeroes(BLOCK_SECTOR_SIZE), 0)
                                ELSE m,
                                a.sector),
                        LAMBDA m2 :
                          LET h1 == SetWord(h, DIRECT_BLOCK_ENTRIES + 1,
                                            a.sector)
                              ind_block_2nd_level ==
                                At(Cached(m2, a.sector), loc.index1)
                              new_block ==
                                SetWord(Zeroes(BLOCK_SECTOR_SIZE), loc.index2,
                                        new_sector)
                          IN IF ind_block_2nd_level = 0
                             THEN Let(free_map_allocate(m2),
                                      LAMBDA b :
                                        IF b.ok
                                        THEN [m |-> bc_write(
                                                      bc_write(
                                                        b.m, a.sector,
                                                        <<b.sector>>,
                                                        map_table_offset(
                                                          loc.index1)),
                                                      b.sector, new_block, 0),
                                              h |-> h1, ok |-> TRUE]
                                        ELSE [m |-> m2, h |-> h1, ok |-> FALSE])
                             ELSE [m |-> bc_write(m2, ind_block_2nd_level,
                                                  <<new_sector>>,
                                                  map_table_offset(loc.index2)),
                                   h |-> h1, ok |-> TRUE]))
    [] OTHER -> [m |-> m, h |-> h, ok |-> FALSE]

\* The loop of inode_update_file_length without the zero-fill of the sectors
\* it allocates.
RECURSIVE grow_no_zero(_, _, _, _)
grow_no_zero(m, h, offset, size) ==
  IF size <= 0 THEN [m |-> m, h |-> h, ok |-> TRUE]
  ELSE
    LET sector_ofs == offset % BLOCK_SECTOR_SIZE
        sector_left == BLOCK_SECTOR_SIZE - sector_ofs
        chunk_size == MinOf(size, sector_left)
    IN IF sector_ofs > 0
       THEN Let(byte_to_sector(m, h, offset),
                LAMBDA b :
                  IF b.sec = 0
                  THEN [m |-> Panic(b.m), h |-> h, ok |-> FALSE]
                  ELSE grow_no_zero(b.m, h, offset + chunk_size,
                                    size - chunk_size))
       ELSE Let(free_map_allocate(m),
                LAMBDA a :
                  IF ~a.ok
                  THEN [m |-> m, h |-> h, ok |-> FALSE]
                  ELSE Let(register_sector(a.m, h, a.sector,
                                           locate_byte(offset)),
                           LAMBDA r :
                             IF ~r.ok
                             THEN [m |-> free_map_release(r.m, a.sector),
                                   h |-> r.h, ok |-> FALSE]
                             ELSE grow_no_zero(r.m, r.h, offset + chunk_size,
                                               size - chunk_size)))

\* The loop of inode_update_file_length: [m, h, ok]
RECURSIVE grow(_, _, _, _)
grow(m, h, offset, size) ==
  IF size <= 0 THEN [m |-> m, h |-> h, ok |-> TRUE]
  ELSE
    LET sector_ofs == offset % BLOCK_SECTOR_SIZE
        sector_left == BLOCK_SECTOR_SIZE - sector_ofs
        chunk_size == MinOf(size, sector_left)
    IN IF sector_ofs > 0
       THEN Let(byte_to_sector(m, h, offset),
                LAMBDA b :
                  IF b.sec = 0
                  THEN [m |-> Panic(b.m), h |-> h, ok |-> FALSE]
                  ELSE grow(bc_write(b.m, b.sec, Zeroes(sector_left),
                                     sector_ofs),
                            h, offset + chunk_size, size - chunk_size))
       ELSE Let(free_map_allocate(m),
                LAMBDA a :
                  IF ~a.ok
                  THEN [m |-> m, h |-> h, ok |-> FALSE]
                  ELSE Let(register_sector(a.m, h, a.sector,
                                           locate_byte(offset)),
                           LAMBDA r :
                             IF ~r.ok
                             THEN [m |-> free_map_release(r.m, a.sector),
                                   h |-> r.h, ok |-> FALSE]
                             ELSE grow(bc_write(r.m, a.sector,
                                                Zeroes(BLOCK_SECTOR_SIZE), 0),
                                       r.h, offset + chunk_size,
                                       size - chunk_size)))

\* inode_update_file_length (inode_disk, start_pos, end_pos): [m, h, ok]
inode_update_file_length(m, h, start_pos, end_pos) ==
  IF start_pos > end_pos
  THEN [m |-> Panic(m), h |-> h, ok |-> FALSE]
  ELSE grow(m, h, start_pos, end_pos - start_pos + 1)

\* inode_create (sector, length, is_dir): [m, ok]
inode_create(m, sector, length, is_dir) ==
  LET h0 == SetWord(SetWord(SetWord(Zeroes(BLOCK_SECTOR_SIZE),
                                    LENGTH_WORD, length),
                            DIRECT_BLOCK_ENTRIES + 3, INODE_MAGIC),
                    DIRECT_BLOCK_ENTRIES + 4, is_dir)
  IN Let(IF length > 0
         THEN inode_update_file_length(m, h0, 0, length - 1)
         ELSE [m |-> m, h |-> h0, ok |-> TRUE],
         LAMBDA g :
           IF ~g.ok
           THEN [m |-> g.m, ok |-> FALSE]
           ELSE [m |-> bc_write(g.m, sector, g.h, 0), ok |-> TRUE])

\* get_disk_inode (inode, inode_disk): [m, h]
get_disk_inode(m, sector) ==
  Let(bc_read(m, sector), LAMBDA r : [m |-> r, h |-> Cached(r, sector)])

\* The loop of inode_read_at without the bound of the bytes left in the inode.
RECURSIVE read_loop_past(_, _, _, _, _)
read_loop_past(m, h, size, offset, buffer) ==
  LET sector_ofs == offset % BLOCK_SECTOR_SIZE
      sector_left == BLOCK_SECTOR_SIZE - sector_ofs
      chunk_size == MinOf(size, sector_left)
  IN IF size <= 0 \/ chunk_size <= 0 THEN [m |-> m, data |-> buffer]
     ELSE Let(byte_to_sector(m, h, offset),
              LAMBDA b :
                IF b.sec = 0 THEN [m |-> b.m, data |-> buffer]
                ELSE Let(bc_read(b.m, b.sec),
                         LAMBDA r :
                           read_loop_past(r, h, size - chunk_size,
                                          offset + chunk_size,
                                          buffer \o SubSeq(Cached(r, b.sec),
                                                           sector_ofs + 1,
                                                           sector_ofs
                                                             + chunk_size))))

\* The loop of inode_read_at: [m, data]
RECURSIVE read_loop(_, _, _, _, _)
read_loop(m, h, size, offset, buffer) ==
  LET sector_ofs == offset % BLOCK_SECTOR_SIZE
      inode_left == length_of(h) - offset
      sector_left == BLOCK_SECTOR_SIZE - sector_ofs
      min_left == MinOf(inode_left, sector_left)
      chunk_size == MinOf(size, min_left)
  IN IF size <= 0 \/ chunk_size <= 0 THEN [m |-> m, data |-> buffer]
     ELSE Let(byte_to_sector(m, h, offset),
              LAMBDA b :
                IF b.sec = 0 THEN [m |-> b.m, data |-> buffer]
                ELSE Let(bc_read(b.m, b.sec),
                         LAMBDA r :
                           read_loop(r, h, size - chunk_size,
                                     offset + chunk_size,
                                     buffer \o SubSeq(Cached(r, b.sec),
                                                      sector_ofs + 1,
                                                      sector_ofs + chunk_size))))

\* inode_read_at (inode, buffer, size, offset): [m, data]; Len(data) is returned.
inode_read_at(m, sector, size, offset) ==
  Let(get_disk_inode(m, sector),
      LAMBDA d : read_loop(d.m, d.h, size, offset, <<>>))

\* The copy loop of inode_write_at: [m, bytes_written]
RECURSIVE write_loop(_, _, _, _, _, _)
write_loop(m, h, buffer, size, offset, bytes_written) ==
  LET sector_ofs == offset % BLOCK_SECTOR_SIZE
      inode_left == length_of(h) - offset
      sector_left == BLOCK_SECTOR_SIZE - sector_ofs
      min_left == MinOf(inode_left, sector_left)
      chunk_size == MinOf(size, min_left)
  IN IF size <= 0 \/ chunk_size <= 0
     THEN [m |-> m, bytes_written |-> bytes_written]
     ELSE Let(byte_to_sector(m, h, offset),
              LAMBDA b :
                IF b.sec = 0
                THEN [m |-> b.m, bytes_written |-> bytes_written]
                ELSE write_loop(bc_write(b.m, b.sec,
                                         SubSeq(buffer, bytes_written + 1,
                                                bytes_written + chunk_size),
                                         sector_ofs),
                                h, buffer, size - chunk_size,
                                offset + chunk_size,
                                bytes_written + chunk_size))

\* inode_write_at that sets the length to the end of every write, also of a
\* write inside the file.
inode_write_at_set_length(m, inode, buffer, size, offset) ==
  Let(get_disk_inode(m, inode.sector),
      LAMBDA d :
        LET old_length == length_of(d.h)
            write_end == offset + size - 1
        IN IF inode.deny_write_cnt # 0
           THEN [m |-> d.m, ret |-> 0, locked |-> FALSE]
           ELSE Let(IF write_end > old_length - 1
                    THEN inode_update_file_length(
                           d.m, SetWord(d.h, LENGTH_WORD, write_end + 1),
                           old_length, write_end)
                    ELSE [m |-> d.m,
                          h |-> SetWord(d.h, LENGTH_WORD, write_end + 1),
                          ok |-> TRUE],
                    LAMBDA g :
                      IF ~g.ok
                      THEN [m |-> g.m, ret |-> 0, locked |-> TRUE]
                      ELSE Let(write_loop(g.m, g.h, buffer, size, offset, 0),
                               LAMBDA w :
                                 [m |-> bc_write(w.m, inode.sector, g.h, 0),
                                  ret |-> w.bytes_written,
                                  locked |-> FALSE])))

\* inode_write_at without the test of deny_write_cnt.
inode_write_at_no_deny(m, inode, buffer, size, offset) ==
  Let(get_disk_inode(m, inode.sector),
      LAMBDA d :
        LET old_length == length_of(d.h)
            write_end == offset + size - 1
        IN Let(IF write_end > old_length - 1
               THEN inode_update_file_length(
                      d.m, SetWord(d.h, LENGTH_WORD, write_end + 1),
                      old_length, write_end)
               ELSE [m |-> d.m, h |-> d.h, ok |-> TRUE],
               LAMBDA g :
                 IF ~g.ok
                 THEN [m |-> g.m, ret |-> 0, locked |-> TRUE]
                 ELSE Let(write_loop(g.m, g.h, buffer, size, offset, 0),
                          LAMBDA w :
                            [m |-> bc_write(w.m, inode.sector, g.h, 0),
                             ret |-> w.bytes_written,
                             locked |-> FALSE])))

\* inode_write_at that writes its grown copy of the inode back when the
\* growth has failed.
inode_write_at_fail_header(m, inode, buffer, size, offset) ==
  Let(get_disk_inode(m, inode.sector),
      LAMBDA d :
        LET old_length == length_of(d.h)
            write_end == offset + size - 1
        IN IF inode.deny_write_cnt # 0
           THEN [m |-> d.m, ret |-> 0, locked |-> FALSE]
           ELSE Let(IF write_end > old_length - 1
                    THEN inode_update_file_length(
                           d.m, SetWord(d.h, LENGTH_WORD, write_end + 1),
                           old_length, write_end)
                    ELSE [m |-> d.m, h |-> d.h, ok |-> TRUE],
                    LAMBDA g :
                      IF ~g.ok
                      THEN [m |-> bc_write(g.m, inode.sector, g.h, 0),
                            ret |-> 0, locked |-> TRUE]
                      ELSE Let(write_loop(g.m, g.h, buffer, size, offset, 0),
                               LAMBDA w :
                                 [m |-> bc_write(w.m, inode.sector, g.h, 0),
                                  ret |-> w.bytes_written,
                                  locked |-> FALSE])))

\* inode_write_at (inode, buffer, size, offset):
\* [m, ret, locked]; locked: the call returned holding inode->extend_lock.
inode_write_at(m, inode, buffer, size, offset) ==
  Let(get_disk_inode(m, inode.sector),
      LAMBDA d :
        LET old_length == length_of(d.h)
            write_end == offset + size - 1
        IN IF inode.deny_write_cnt # 0
           THEN [m |-> d.m, ret |-> 0, locked |-> FALSE]
           ELSE Let(IF write_end > old_length - 1
                    THEN inode_update_file_length(
                           d.m, SetWord(d.h, LENGTH_WORD, write_end + 1),
                           old_length, write_end)
                    ELSE [m |-> d.m, h |-> d.h, ok |-> TRUE],
                    LAMBDA g :
                      IF ~g.ok
                      THEN [m |-> g.m, ret |-> 0, locked |-> TRUE]
                      ELSE Let(write_loop(g.m, g.h, buffer, size, offset, 0),
                               LAMBDA w :
                                 [m |-> bc_write(w.m, inode.sector, g.h, 0),
                                  ret |-> w.bytes_written,
                                  locked |-> FALSE])))

\* while (blk[i] > 0) free_map_release (blk[i++], 1).  The scan has no bound:
\* past the last word of BLK it reads whatever follows in memory, here UB.
RECURSIVE release_while(_, _, _, _)
release_while(m, blk, i, ub) ==
  IF i >= Len(blk)
  THEN IF ub > 0 THEN free_map_release(m, ub) ELSE m
  ELSE IF At(blk, i) > 0
  THEN release_while(free_map_release(m, At(blk, i)), blk, i + 1, ub)
  ELSE m

\* The loop of free_inode_sectors over the first-level block ind_block_1.
RECURSIVE release_double(_, _, _, _)
release_double(m, ind_block_1, i, ub) ==
  IF i >= Len(ind_block_1)
  THEN IF ub > 0 THEN free_map_release(m, ub) ELSE m
  ELSE IF At(ind_block_1, i) > 0
  THEN Let(bc_read(m, At(ind_block_1, i)),
           LAMBDA r :
             release_double(
               free_map_release(
                 release_while(r, Cached(r, At(ind_block_1, i)), 0, ub),
                 At(ind_block_1, i)),
               ind_block_1, i + 1, ub))
  ELSE m

\* free_inode_sectors (inode_disk)
free_inode_sectors(m, h, ub) ==
  Let(IF double_indirect_block_sec(h) > 0
      THEN Let(bc_read(m, double_indirect_block_sec(h)),
               LAMBDA r1 :
                 free_map_release(
                   release_double(r1,
                                  Cached(r1, double_indirect_block_sec(h)),
                                  0, ub),
                   double_indirect_block_sec(h)))
      ELSE m,
      LAMBDA m1 :
        \* the indirect block is read from double_indirect_block_sec
        release_while(
          IF indirect_block_sec(h) > 0
          THEN Let(bc_read(m1, double_indirect_block_sec(h)),
                   LAMBDA r2 :
                     free_map_release(
                       release_while(r2,
                                     Cached(r2, double_indirect_block_sec(h)),
                                     0, ub),
                       indirect_block_sec(h)))
          ELSE m1,
          h, 0, ub))

\* ------------------------------------------------------------------- state

VARIABLES
  buffer_head,   \* buffer_head[]: slot -> [sector, valid, dirty, clock_bit, data]
  clock_hand,    \* clock_hand
  disk,          \* fs_device: sector -> words
  free_map,      \* the allocated sectors
  open_inodes,   \* open_inodes, front first: [id, sector, open_cnt, removed,
                 \*   deny_write_cnt, extend_lock]; id stands for the address
  entries,       \* the live directory entries: [dir, name, sector]
  panicked,      \* the kernel hit an ASSERT or PANIC
  ret,           \* the last call: its arguments, its result, what it released
  hist,          \* per inode sector: the size the file was created with,
                 \* its accepted writes (counted up to 2), the last of them,
                 \* and whether a write to it was denied
  fresh,         \* open files not yet written through their struct inode
  nfiles,        \* files created so far
  nops,          \* calls so far
  bc_threads,    \* the threads inside bc_read / bc_write
  latest,        \* sector -> what the completed bc_write calls made of it
  sys_threads,   \* the threads inside a system call
  filesys_lock,  \* syscall.c: the holder of filesys_lock, or 0
  file_sys_lock  \* filesys.c: the holder of file_sys_lock, or 0

\* What the calls of the inode layer, made by one thread, leave alone.
tvars == <<bc_threads, latest, sys_threads, filesys_lock, file_sys_lock>>

vars ==
  <<buffer_head, clock_hand, disk, free_map, open_inodes, entries, panicked,
    ret, hist, fresh, nfiles, nops, tvars>>

\* Bounds of the exploration.
MaxFiles == 1

MaxOps == 3

MaxOpen == 2

\* Threads, and the calls they make together.
MaxThreads == 2

MaxCalls == 3

MaxSyscalls == 3

Threads == 1 .. MaxThreads

\* The first offset behind the direct table, behind the indirect block, and
\* behind the addressable capacity.
IndirectStart == DIRECT_BLOCK_ENTRIES * BLOCK_SECTOR_SIZE

DoubleStart ==
  (DIRECT_BLOCK_ENTRIES + INDIRECT_BLOCK_ENTRIES) * BLOCK_SECTOR_SIZE

Capacity ==
  (DIRECT_BLOCK_ENTRIES + INDIRECT_BLOCK_ENTRIES * (INDIRECT_BLOCK_ENTRIES + 1))
    * BLOCK_SECTOR_SIZE

\* <<size, offset>> of the calls explored.
WriteArgs ==
  {<<2, 0>>, <<DoubleStart + 1, 0>>,
   <<1, 3>>, <<1, IndirectStart>>, <<1, DoubleStart>>, <<1, Capacity>>}

ReadArgs ==
  {<<2, 0>>, <<4, 0>>, <<IndirectStart + 1, 0>>, <<DoubleStart + 1, 0>>}

InitSizes == {0, BLOCK_SECTOR_SIZE}

\* The bytes a caller writes: never 0, different at neighbouring positions,
\* and different from one call to the next (SEED is the call's number).
Data(seed, size) == [i \in 1 .. size |-> ((seed + i) % 3) + 1]

\* What an unformatted sector holds.
BlankSector == [i \in 1 .. BLOCK_SECTOR_SIZE |-> 9]

Machine ==
  [bh |-> buffer_head, hand |-> clock_hand, dev |-> disk, fm |-> free_map,
   rel |-> <<>>, panic |-> FALSE]

Install(m) ==
  /\ buffer_head' = m.bh
  /\ clock_hand' = m.hand
  /\ disk' = m.dev
  /\ free_map' = m.fm
  /\ panicked' = m.panic

\* The struct inode that inode_open makes, at the address id.
NewInode(sector, id) ==
  [id |-> id, sector |-> sector, open_cnt |-> 1, removed |-> FALSE,
   deny_write_cnt |-> 0, extend_lock |-> FALSE]

\* bc_init, free_map_init, then do_format: the free-map file in sector 0 and the
\* root directory in sector 1, each with one data sector.
Formatted ==
  LET blank == [bh |-> [i \in Slots |-> EmptyHead], hand |-> 0,
                dev |-> [s \in Sectors |-> BlankSector],
                fm |-> {FREE_MAP_SECTOR, ROOT_DIR_SECTOR},
                rel |-> <<>>, panic |-> FALSE]
      f == inode_create(blank, FREE_MAP_SECTOR, 1, 0)
  IN inode_create(f.m, ROOT_DIR_SECTOR, BLOCK_SECTOR_SIZE, 1).m

\* The sector as bc_read would deliver it: the slot's data, else the device's.
View(m, sector) ==
  IF bc_lookup(m.bh, sector) # -1 THEN m.bh[bc_lookup(m.bh, sector)].data
  ELSE IF sector \in Sectors THEN m.dev[sector]
  ELSE Zeroes(BLOCK_SECTOR_SIZE)

\* inode_length (inode)
inode_length(m, sector) == length_of(get_disk_inode(m, sector).h)

Words(blk) == {blk[i] : i \in 1 .. Len(blk)} \ {0}

\* The sectors of the file whose inode is in SECTOR: the inode, its data
\* sectors and its index blocks.
FileSectors(m, sector) ==
  LET h == View(m, sector)
      ind == indirect_block_sec(h)
      dbl == double_indirect_block_sec(h)
      second == IF dbl = 0 THEN {} ELSE Words(View(m, dbl))
  IN ({sector, ind, dbl}
        \cup {direct_map_table(h, i) : i \in 0 .. DIRECT_BLOCK_ENTRIES - 1}
        \cup (IF ind = 0 THEN {} ELSE Words(View(m, ind)))
        \cup second
        \cup UNION {Words(View(m, b)) : b \in second}) \ {0}

\* File names are strings of characters; "." and ".." are the entries every
\* directory gets when it is made.
Dot == <<".">>

DotDot == <<".", ".">>

\* A call: its arguments, its return value VAL, the bytes written or read
\* (DATA), the sectors it released (REL); for a read or write also the file
\* length before and after (OLDLEN, NEWLEN), the file's bytes before (BEFORE)
\* and deny_write_cnt at the call (DENY); for the close that frees a removed
\* file, the file's sectors before it (OWNED); whether malloc gave the call
\* memory (MALLOC).
NoCall ==
  [op |-> "init", sector |-> 0, size |-> 0, offset |-> 0, val |-> 0,
   data |-> <<>>, rel |-> <<>>, oldlen |-> 0, newlen |-> 0, before |-> <<>>,
   deny |-> 0, owned |-> {}, malloc |-> TRUE, after |-> <<>>]

NoHist == [made |-> 0, count |-> 0, last |-> NoCall, denied |-> FALSE]

\* A thread outside the buffer cache.
IdleCall ==
  [pc |-> "idle", op |-> "none", sector |-> 0, ofs |-> 0, val |-> 0,
   idx |-> 0, raced |-> FALSE]

\* A thread outside the system calls; cur_dir is the address of the struct
\* inode of its current directory, at first the root's.
IdleSyscall ==
  [pc |-> "idle", op |-> "none", abs |-> FALSE, name |-> <<>>, dir |-> 0,
   inode |-> 0, target |-> 0, next |-> "idle", cur_dir |-> 1,
   deny_write |-> FALSE, disk_inode |-> <<>>, size |-> 0, offset |-> 0,
   val |-> 0, held |-> {}, found |-> 0, got |-> 0]

\* filesys_init (true): do_format has added "." and ".." to the root
\* directory, the root directory is open as every thread's cur_dir, and the
\* free-map file is open.
Init ==
  /\ buffer_head = Formatted.bh
  /\ clock_hand = Formatted.hand
  /\ disk = Formatted.dev
  /\ free_map = Formatted.fm
  /\ open_inodes = <<[NewInode(ROOT_DIR_SECTOR, 1) EXCEPT
                        !.open_cnt = MaxThreads],
                      NewInode(FREE_MAP_SECTOR, 2)>>
  /\ entries = {[dir |-> ROOT_DIR_SECTOR, name |-> Dot,
                  sector |-> ROOT_DIR_SECTOR],
                 [dir |-> ROOT_DIR_SECTOR, name |-> DotDot,
                  sector |-> ROOT_DIR_SECTOR]}
  /\ panicked = FALSE
  /\ ret = NoCall
  /\ hist = [s \in Sectors |-> NoHist]
  /\ fresh = {}
  /\ nfiles = 0
  /\ nops = 0
  /\ bc_threads = [t \in Threads |-> IdleCall]
  /\ latest = [s \in Sectors |-> View(Formatted, s)]
  /\ sys_threads = [t \in Threads |-> IdleSyscall]
  /\ filesys_lock = 0
  /\ file_sys_lock = 0

\* --------------------------------------------------------- open-inodes list

\* The first element of open_inodes with this sector (0 when there is none).
Find(list, sector) ==
  LET hits == {i \in 1 .. Len(list) : list[i].sector = sector}
  IN IF hits = {} THEN 0 ELSE Min(hits)

Drop(list, i) == SubSeq(list, 1, i - 1) \o SubSeq(list, i + 1, Len(list))

\* The element of open_inodes at the address id (0 when there is none).
ById(list, id) ==
  LET hits == {i \in 1 .. Len(list) : list[i].id = id}
  IN IF hits = {} THEN 0 ELSE Min(hits)

\* malloc (sizeof *inode): an address no open inode has.
NewId(list) ==
  Min({n \in 1 .. Len(list) + 1 : \A i \in 1 .. Len(list) : list[i].id # n})

\* inode_open (sector) run without interruption
inode_open(list, sector) ==
  IF Find(list, sector) # 0
  THEN [list EXCEPT ![Find(list, sector)].open_cnt = @ + 1]
  ELSE <<NewInode(sector, NewId(list))>> \o list

\* inode_close of the element i of LIST: [m, list]
inode_close(m, list, i, ub) ==
  LET inode == list[i]
      last == inode.open_cnt - 1 = 0
  IN [m |-> IF last /\ inode.removed
            THEN Let(get_disk_inode(m, inode.sector),
                     LAMBDA d :
                       free_map_release(free_inode_sectors(d.m, d.h, ub),
                                        inode.sector))
            ELSE m,
      list |-> IF last THEN Drop(list, i)
               ELSE [list EXCEPT ![i].open_cnt = @ - 1]]

\* The open regular files.
OpenFiles ==
  {open_inodes[i].sector : i \in 1 .. Len(open_inodes)}
    \ {FREE_MAP_SECTOR, ROOT_DIR_SECTOR}

Inode(sector) == open_inodes[Find(open_inodes, sector)]

\* ----------------------------------------------------------------- actions

\* filesys_create without the path: free_map_allocate, inode_create, the new
\* name, and the release of the inode sector when a step fails.
Create(initial_size) ==
  /\ ~panicked
  /\ nfiles < MaxFiles
  /\ LET a == free_map_allocate(Machine)
         c == inode_create(a.m, a.sector, initial_size, 0)
         success == a.ok /\ c.ok
         m == IF ~a.ok THEN a.m
              ELSE IF ~c.ok THEN free_map_release(c.m, a.sector)
              ELSE c.m
     IN /\ Install(m)
        /\ entries' = IF success
                      THEN entries \cup {[dir |-> ROOT_DIR_SECTOR,
                                          name |-> [i \in 1 .. nfiles + 1
                                                      |-> "f"],
                                          sector |-> a.sector]}
                      ELSE entries
        /\ ret' = [NoCall EXCEPT !.op = "create", !.sector = a.sector,
                                 !.size = initial_size,
                                 !.val = IF success THEN 1 ELSE 0,
                                 !.rel = m.rel]
        /\ hist' = IF success
                   THEN [hist EXCEPT ![a.sector] =
                                       [NoHist EXCEPT !.made = initial_size]]
                   ELSE hist
  /\ nfiles' = nfiles + 1
  /\ UNCHANGED <<tvars, open_inodes, fresh, nops>>

\* inode_open of a file found by name
Open(sector) ==
  /\ ~panicked
  /\ \E e \in entries : e.sector = sector
  /\ Find(open_inodes, sector) # 0 => Inode(sector).open_cnt < MaxOpen
  /\ open_inodes' = inode_open(open_inodes, sector)
  /\ fresh' = IF Find(open_inodes, sector) = 0 THEN fresh \cup {sector}
              ELSE fresh
  /\ ret' = [NoCall EXCEPT !.op = "open", !.sector = sector]
  /\ UNCHANGED <<tvars, buffer_head, clock_hand, disk, free_map, entries, panicked,
                 hist, nfiles, nops>>

\* inode_reopen (inode)
Reopen(sector) ==
  /\ ~panicked
  /\ sector \in OpenFiles
  /\ Inode(sector).open_cnt < MaxOpen
  /\ open_inodes' =
       [open_inodes EXCEPT ![Find(open_inodes, sector)].open_cnt = @ + 1]
  /\ ret' = [NoCall EXCEPT !.op = "reopen", !.sector = sector]
  /\ UNCHANGED <<tvars, buffer_head, clock_hand, disk, free_map, entries, panicked,
                 hist, fresh, nfiles, nops>>

\* inode_remove (inode), from dir_remove, which also clears the name
Remove(sector) ==
  /\ ~panicked
  /\ sector \in OpenFiles
  /\ \E e \in entries : e.sector = sector
  /\ open_inodes' =
       [open_inodes EXCEPT ![Find(open_inodes, sector)].removed = TRUE]
  /\ entries' = {e \in entries : e.sector # sector}
  /\ ret' = [NoCall EXCEPT !.op = "remove", !.sector = sector]
  /\ UNCHANGED <<tvars, buffer_head, clock_hand, disk, free_map, panicked, hist, fresh,
                 nfiles, nops>>

\* inode_close (inode); an opener that denied writes allows them before it
\* closes, so one of the others closes.
Close(sector, ub) ==
  /\ ~panicked
  /\ sector \in OpenFiles
  /\ Inode(sector).deny_write_cnt < Inode(sector).open_cnt
  /\ LET i == Find(open_inodes, sector)
         inode == open_inodes[i]
         last == inode.open_cnt - 1 = 0
         c == inode_close(Machine, open_inodes, i, ub)
         m == c.m
     IN /\ open_inodes' = c.list
        /\ Install(m)
        /\ fresh' = IF last THEN fresh \ {sector} ELSE fresh
        /\ ret' = [NoCall EXCEPT !.op = "close", !.sector = sector,
                                 !.val = IF last THEN 1 ELSE 0,
                                 !.rel = m.rel,
                                 !.owned = IF last /\ inode.removed
                                           THEN FileSectors(Machine, sector)
                                           ELSE {}]
        /\ hist' = IF last /\ inode.removed
                   THEN [hist EXCEPT ![sector] = NoHist]
                   ELSE hist
  /\ UNCHANGED <<tvars, entries, nfiles, nops>>

\* inode_deny_write (inode), at most once per opener
DenyWrite(sector) ==
  /\ ~panicked
  /\ sector \in OpenFiles
  /\ Inode(sector).deny_write_cnt < Inode(sector).open_cnt
  /\ open_inodes' =
       [open_inodes EXCEPT ![Find(open_inodes, sector)].deny_write_cnt = @ + 1]
  /\ ret' = [NoCall EXCEPT !.op = "deny", !.sector = sector]
  /\ UNCHANGED <<tvars, buffer_head, clock_hand, disk, free_map, entries, panicked,
                 hist, fresh, nfiles, nops>>

\* inode_allow_write (inode), by an opener that denied
AllowWrite(sector) ==
  /\ ~panicked
  /\ sector \in OpenFiles
  /\ Inode(sector).deny_write_cnt > 0
  /\ open_inodes' =
       [open_inodes EXCEPT ![Find(open_inodes, sector)].deny_write_cnt = @ - 1]
  /\ ret' = [NoCall EXCEPT !.op = "allow", !.sector = sector]
  /\ UNCHANGED <<tvars, buffer_head, clock_hand, disk, free_map, entries, panicked,
                 hist, fresh, nfiles, nops>>

\* inode_write_at (inode, Data(nops + 1, size), size, offset); a caller that finds
\* extend_lock held waits.
WriteAt(sector, size, offset) ==
  /\ ~panicked
  /\ nops < MaxOps
  /\ sector \in OpenFiles
  /\ ~Inode(sector).extend_lock
  /\ LET w == inode_write_at(Machine, Inode(sector), Data(nops + 1, size),
                             size, offset)
     IN /\ Install(w.m)
        /\ open_inodes' =
             [open_inodes EXCEPT ![Find(open_inodes, sector)].extend_lock =
                                   w.locked]
        /\ ret' = [op |-> "write", sector |-> sector, size |-> size,
                   offset |-> offset, val |-> w.ret,
                   data |-> Data(nops + 1, size),
                   rel |-> w.m.rel,
                   oldlen |-> inode_length(Machine, sector),
                   newlen |-> inode_length(w.m, sector),
                   before |-> inode_read_at(Machine, sector,
                                            inode_length(Machine, sector),
                                            0).data,
                   deny |-> Inode(sector).deny_write_cnt, owned |-> {},
                   malloc |-> TRUE,
                   after |-> inode_read_at(w.m, sector,
                                           inode_length(Machine, sector),
                                           0).data]
        /\ hist' = IF w.ret > 0
                   THEN [hist EXCEPT ![sector].count = MinOf(@ + 1, 2),
                                     ![sector].last = ret']
                   ELSE IF Inode(sector).deny_write_cnt > 0
                   THEN [hist EXCEPT ![sector].denied = TRUE]
                   ELSE hist
  /\ fresh' = fresh \ {sector}
  /\ nops' = nops + 1
  /\ UNCHANGED <<tvars, entries, nfiles>>

\* inode_read_at (inode, buffer, size, offset)
ReadAt(sector, size, offset) ==
  /\ ~panicked
  /\ nops < MaxOps
  /\ sector \in OpenFiles
  /\ LET r == inode_read_at(Machine, sector, size, offset)
     IN /\ Install(r.m)
        /\ ret' = [op |-> "read", sector |-> sector, size |-> size,
                   offset |-> offset, val |-> Len(r.data), data |-> r.data,
                   rel |-> r.m.rel,
                   oldlen |-> inode_length(Machine, sector),
                   newlen |-> inode_length(r.m, sector),
                   before |-> <<>>,
                   deny |-> Inode(sector).deny_write_cnt, owned |-> {},
                   malloc |-> TRUE, after |-> <<>>]
  /\ nops' = nops + 1
  /\ UNCHANGED <<tvars, open_inodes, entries, hist, fresh, nfiles>>

\* What a scan of free_inode_sectors may read behind the end of its block.
BeyondBlock == {0, ROOT_DIR_SECTOR}

Next ==
  \/ \E n \in InitSizes : Create(n)
  \/ \E s \in Sectors : Open(s)
  \/ \E s \in Sectors : Reopen(s)
  \/ \E s \in Sectors : Remove(s)
  \/ \E s \in Sectors, ub \in BeyondBlock : Close(s, ub)
  \/ \E s \in Sectors : DenyWrite(s)
  \/ \E s \in Sectors : AllowWrite(s)
  \/ \E s \in Sectors, a \in WriteArgs : WriteAt(s, a[1], a[2])
  \/ \E s \in Sectors, a \in ReadArgs : ReadAt(s, a[1], a[2])

Spec == Init /\ [][Next]_vars

\* ------------------------------------------------------------ observations

\* The length of the open file in SECTOR, as the next call will find it.
FileLength(sector) == length_of(View(Machine, sector))

\* The step is a counted call whose record is op.
IsCall(op) == nops' # nops /\ ret'.op = op

\* --------------------------------------------------------------------- C1
\* The call was a read of L bytes at offset 0 of a file created empty and
\* written once since: L bytes at offset 0, all of them accepted.
RoundTripCase ==
  /\ ret.op = "read"
  /\ ret.offset = 0
  /\ hist[ret.sector].made = 0
  /\ hist[ret.sector].count = 1
  /\ hist[ret.sector].last.offset = 0
  /\ hist[ret.sector].last.val = hist[ret.sector].last.size
  /\ hist[ret.sector].last.size = ret.size

\* C1: a file created empty and then written once, L bytes at offset 0, all
\* of them accepted, reads back exactly those bytes with a read of L bytes at
\* offset 0, whatever the cache evicted in between.
C1_RoundTrip == RoundTripCase => ret.data = hist[ret.sector].last.data

\* The longest file explored (direct, indirect and double-indirect sectors),
\* read back through a struct inode opened after the write.
C1_Witness ==
  /\ RoundTripCase
  /\ ret.size = DoubleStart + 1
  /\ ret.sector \in fresh

\* --------------------------------------------------------------------- C2
SparseWrite(w) ==
  /\ w.op = "write"
  /\ w.size = 1
  /\ w.val = 1
  /\ w.offset >= w.oldlen

\* The last accepted write to the file read was one byte at or behind its end.
SparseCase ==
  /\ ret.op = "read"
  /\ ret.offset = 0
  /\ SparseWrite(hist[ret.sector].last)
  /\ ret.size = hist[ret.sector].last.offset + 1

C3_GrowthMonotonic ==
  [][\A s \in OpenFiles \cap OpenFiles' :
       /\ FileLength(s)' >= FileLength(s)
       /\ IsCall("write") /\ ret'.sector = s /\ ret'.val > 0 =>
            FileLength(s)' >= ret'.offset + ret'.val]_vars

\* A write that made a file longer.
C3_Witness ==
  /\ ret.op = "write"
  /\ ret.val > 0
  /\ ret.oldlen > 0
  /\ ret.newlen > ret.oldlen

\* --------------------------------------------------------------------- C4
Range(seq) == {seq[i] : i \in 1 .. Len(seq)}

\* C4: a write to an inode whose deny_write_cnt is above 0 returns 0 and
\* changes no sector as the cache delivers it (no header, so no length, and
\* no data) and not the free-map; with deny_write_cnt at 0 a write returns its
\* size, unless it had to grow the file and the growth failed (it then
\* returns holding extend_lock).
C4_DenyWrite ==
  [][\A s \in OpenFiles :
       IsCall("write") /\ ret'.sector = s =>
         IF ret'.deny > 0
         THEN /\ ret'.val = 0
              /\ free_map' = free_map
              /\ \A x \in Sectors : View(Machine, x)' = View(Machine, x)
         ELSE ret'.val = ret'.size \/ Inode(s)'.extend_lock]_vars

\* A write that would have extended the file was denied, and after
\* inode_allow_write a later write was accepted.
C4_Witness ==
  /\ ret.op = "write"
  /\ ret.val > 0
  /\ ret.deny = 0
  /\ hist[ret.sector].denied

\* --------------------------------------------------------------------- C5
\* C5: while a removed inode stays open its openers read and write it as
\* before and none of its sectors is released; the inode_close that brings
\* open_cnt to 0 releases its sectors; closing an inode that is not removed
\* releases nothing.
C5_RemovalReachability ==
  [][/\ \A s \in OpenFiles \cap OpenFiles' :
          /\ FileSectors(Machine, s) \cap Range(ret'.rel) = {}
          /\ IsCall("read") /\ ret'.sector = s =>
               ret'.val = MinOf(ret'.size,
                                IF ret'.oldlen > ret'.offset
                                THEN ret'.oldlen - ret'.offset ELSE 0)
          /\ IsCall("write") /\ ret'.sector = s /\ ret'.deny = 0 =>
               ret'.val = ret'.size \/ Inode(s)'.extend_lock
     /\ \A s \in OpenFiles \ OpenFiles' :
          IF Inode(s).removed
          THEN FileSectors(Machine, s) \subseteq Range(ret'.rel)
          ELSE ret'.rel = <<>>]_vars

\* The part of C5 that holds of the code: sectors are released by no step
\* but the inode_close that brings a removed inode's open_cnt to 0, which
\* releases the inode sector.
C5_ReleaseTiming ==
  [][/\ \A s \in OpenFiles \cap OpenFiles' :
          FileSectors(Machine, s) \cap Range(ret'.rel) = {}
     /\ \A s \in OpenFiles \ OpenFiles' :
          IF Inode(s).removed
          THEN s \in Range(ret'.rel)
          ELSE ret'.rel = <<>>]_vars

\* --------------------------------------------------------------------- C6
\* C6: the close that frees a removed file releases each sector of the file
\* (inode, data sectors, index blocks) exactly once and no other sector.
C6_ReleaseExactlyOnce ==
  ret.op = "close" /\ ret.owned # {} =>
    /\ Range(ret.rel) = ret.owned
    /\ Len(ret.rel) = Cardinality(ret.owned)

\* The same for a file without index blocks, where it holds.
C6_DirectOnly ==
  ret.op = "close" /\ ret.owned # {} /\ Cardinality(ret.owned)
                                           <= DIRECT_BLOCK_ENTRIES + 1 =>
    /\ Range(ret.rel) = ret.owned
    /\ Len(ret.rel) = Cardinality(ret.owned)

NeverPanics == ~panicked

\* ------------------------------------------ the buffer cache, by threads
\* bc_read and bc_write run by several threads.  A thread can lose the
\* processor between any two statements; each action below is one stretch of
\* a call that the model runs without interruption: the lookup, the choice
\* of the victim (bc_select_victim), the fault-in from the device, and the
\* copy under the slot's lock.

\* The sectors the threads read and write, the offsets and the bytes.
CacheSectors == {2, 3}

CacheOffsets == {0, 1}

CacheValues == {1, 2}

\* What the actions of the cache leave alone.
cvars ==
  <<free_map, open_inodes, entries, panicked, hist, fresh, nfiles,
    sys_threads, filesys_lock, file_sys_lock>>

CacheMachine ==
  [bh |-> buffer_head, hand |-> clock_hand, dev |-> disk, fm |-> free_map,
   rel |-> <<>>, panic |-> FALSE]

InstallCache(m) ==
  /\ buffer_head' = m.bh
  /\ clock_hand' = m.hand
  /\ disk' = m.dev

\* bc_read, lines 56-61: the lookup.
bc_read_lookup(t, sector_idx, sector_ofs) ==
  /\ nops < MaxCalls
  /\ bc_threads[t].pc = "idle"
  /\ LET hit == bc_lookup(buffer_head, sector_idx)
     IN bc_threads' =
          [bc_threads EXCEPT ![t] =
             [pc |-> IF hit = -1 THEN "victim" ELSE "copy", op |-> "read",
              sector |-> sector_idx, ofs |-> sector_ofs, val |-> 0,
              idx |-> IF hit = -1 THEN 0 ELSE hit, raced |-> FALSE]]
  /\ nops' = nops + 1
  /\ ret' = [NoCall EXCEPT !.op = "lookup"]
  /\ UNCHANGED <<buffer_head, clock_hand, disk, latest, cvars>>

\* bc_write, lines 101-109: the lookup.
bc_write_lookup(t, sector_idx, sector_ofs, val) ==
  /\ nops < MaxCalls
  /\ bc_threads[t].pc = "idle"
  /\ LET hit == bc_lookup(buffer_head, sector_idx)
     IN bc_threads' =
          [bc_threads EXCEPT ![t] =
             [pc |-> IF hit = -1 THEN "victim" ELSE "store", op |-> "write",
              sector |-> sector_idx, ofs |-> sector_ofs, val |-> val,
              idx |-> IF hit = -1 THEN 0 ELSE hit, raced |-> FALSE]]
  /\ nops' = nops + 1
  /\ ret' = [NoCall EXCEPT !.op = "lookup"]
  /\ UNCHANGED <<buffer_head, clock_hand, disk, latest, cvars>>

\* p_lookup = bc_select_victim (), in bc_read (line 63) and bc_write (111)
select_victim(t) ==
  /\ bc_threads[t].pc = "victim"
  /\ LET v == bc_select_victim(CacheMachine)
     IN /\ InstallCache(v.m)
        /\ bc_threads' = [bc_threads EXCEPT ![t].idx = v.idx, ![t].pc = "fill"]
  /\ ret' = [NoCall EXCEPT !.op = "victim"]
  /\ UNCHANGED <<latest, nops, cvars>>

\* bc_read, lines 67-74: block_read into the victim and the update of its
\* head, under the slot's lock.
bc_read_fill(t) ==
  /\ bc_threads[t].pc = "fill"
  /\ bc_threads[t].op = "read"
  /\ LET idx == bc_threads[t].idx
         r == block_read(CacheMachine, bc_threads[t].sector, idx)
     IN InstallCache([r EXCEPT !.bh[idx].dirty = FALSE,
                               !.bh[idx].valid = TRUE,
                               !.bh[idx].sector = bc_threads[t].sector])
  /\ bc_threads' = [bc_threads EXCEPT ![t].pc = "copy"]
  /\ ret' = [NoCall EXCEPT !.op = "fill"]
  /\ UNCHANGED <<latest, nops, cvars>>

\* bc_read, lines 76-85: the copy to the caller and clock_bit.
bc_read_copy(t) ==
  /\ bc_threads[t].pc = "copy"
  /\ LET idx == bc_threads[t].idx
     IN /\ buffer_head' = [buffer_head EXCEPT ![idx].clock_bit = TRUE]
        /\ ret' = [NoCall EXCEPT !.op = "bc_read",
                                 !.sector = bc_threads[t].sector,
                                 !.offset = bc_threads[t].ofs,
                                 !.size = 1,
                                 !.val = At(buffer_head[idx].data,
                                            bc_threads[t].ofs)]
  /\ bc_threads' = [bc_threads EXCEPT ![t] = IdleCall]
  /\ UNCHANGED <<clock_hand, disk, latest, nops, cvars>>

\* bc_write, line 116: block_read into the victim, outside the slot's lock.
bc_write_fill(t) ==
  /\ bc_threads[t].pc = "fill"
  /\ bc_threads[t].op = "write"
  /\ InstallCache(block_read(CacheMachine, bc_threads[t].sector,
                             bc_threads[t].idx))
  /\ bc_threads' = [bc_threads EXCEPT ![t].pc = "store"]
  /\ ret' = [NoCall EXCEPT !.op = "fill"]
  /\ UNCHANGED <<latest, nops, cvars>>

\* bc_write, lines 119-134: the copy into the slot and the update of its head.
\* The reads of the sector that began before this write ended have raced it.
bc_write_store(t) ==
  /\ bc_threads[t].pc = "store"
  /\ LET idx == bc_threads[t].idx
         sector == bc_threads[t].sector
         src == <<bc_threads[t].val>>
     IN /\ buffer_head' =
             [buffer_head EXCEPT
                ![idx].data = Patch(buffer_head[idx].data, bc_threads[t].ofs,
                                    src),
                ![idx].dirty = TRUE,
                ![idx].valid = TRUE,
                ![idx].sector = sector,
                ![idx].clock_bit = TRUE]
        /\ latest' = [latest EXCEPT
                        ![sector] = Patch(latest[sector], bc_threads[t].ofs,
                                          src)]
        /\ bc_threads' =
             [u \in Threads |->
                IF u = t THEN IdleCall
                ELSE IF bc_threads[u].pc # "idle"
                          /\ bc_threads[u].sector = sector
                THEN [bc_threads[u] EXCEPT !.raced = TRUE]
                ELSE bc_threads[u]]
        /\ ret' = [NoCall EXCEPT !.op = "bc_write", !.sector = sector,
                                 !.offset = bc_threads[t].ofs, !.size = 1,
                                 !.val = bc_threads[t].val]
  /\ UNCHANGED <<clock_hand, disk, nops, cvars>>

\* bc_flush_all_entries (), while no thread is inside bc_write
flush_all_entries ==
  /\ nops < MaxCalls
  /\ \A t \in Threads : bc_threads[t].op = "write" => bc_threads[t].pc = "idle"
  /\ InstallCache(bc_flush_all_entries(CacheMachine))
  /\ nops' = nops + 1
  /\ ret' = [NoCall EXCEPT !.op = "flush"]
  /\ UNCHANGED <<bc_threads, latest, cvars>>

NextCache ==
  \/ \E t \in Threads, s \in CacheSectors, o \in CacheOffsets :
       bc_read_lookup(t, s, o)
  \/ \E t \in Threads, s \in CacheSectors, o \in CacheOffsets,
        v \in CacheValues : bc_write_lookup(t, s, o, v)
  \/ \E t \in Threads : select_victim(t)
  \/ \E t \in Threads : bc_read_fill(t)
  \/ \E t \in Threads : bc_read_copy(t)
  \/ \E t \in Threads : bc_write_fill(t)
  \/ \E t \in Threads : bc_write_store(t)
  \/ flush_all_entries

SpecCache == Init /\ [][NextCache]_vars

\* --------------------------------------------------------------------- C8
\* C8: under any interleaving of bc_read and bc_write calls, no two buffer
\* heads have their sector field equal to the same device sector.
C8_OneHeadPerSector ==
  \A i, j \in Slots :
    i # j /\ buffer_head[i].sector # -1 =>
      buffer_head[i].sector # buffer_head[j].sector

\* --------------------------------------------------------------------- C9
\* C9: a bc_read of a sector that began after the last bc_write to the sector
\* had completed returns the bytes that the completed writes left there.
C9_Coherence ==
  [][\A t \in Threads :
       /\ bc_threads[t].op = "read"
       /\ bc_threads[t].pc = "copy"
       /\ bc_threads'[t].pc = "idle"
       /\ ~bc_threads[t].raced
       => ret'.val = At(latest[bc_threads[t].sector], bc_threads[t].ofs)]_vars

\* -------------------------------------------------------------------- C10
\* C10: when bc_flush_all_entries returns, having run with no thread inside
\* bc_write, no buffer head is dirty and every sector of the device holds
\* what the bc_write calls completed before the flush made of it.
C10_FlushDurability ==
  [][IsCall("flush") =>
       /\ \A i \in Slots : ~buffer_head'[i].dirty
       /\ \A s \in Sectors : disk'[s] = latest[s]]_vars

\* ------------------------------------------- the system calls, by threads
\* create, open, remove, sys_mkdir and sys_chdir run by several threads.  A
\* thread can lose the processor between any two statements; each action
\* below is one stretch of a call that the model runs without interruption.
\* inode_open is two stretches: the scan of open_inodes, and the insertion of
\* the new struct inode.  The directory layer (directory.c) is the set
\* entries; its own reads and writes of the directory's sectors are left out.

\* The names in a directory.  A path is absolute ("/name") or relative
\* ("name"): one component, so that the loop of parse_path makes no pass.
Names == {<<"a">>}

Syscalls == {"create", "open", "remove", "mkdir", "chdir"}

\* The system calls that hold filesys_lock (syscall.c).
Locked == {"create", "open", "remove"}

\* What the actions of the system calls leave alone.
svars == <<hist, fresh, nfiles, bc_threads, latest>>

mvars == <<buffer_head, clock_hand, disk, free_map, panicked>>

\* dir_lookup (dir, name, &inode): the sector of the entry, 0 when none.
dir_lookup(dir_sector, name) ==
  LET hits == {e \in entries : e.dir = dir_sector /\ e.name = name}
  IN IF hits = {} THEN 0 ELSE (CHOOSE e \in hits : TRUE).sector

\* The sector of the struct inode at the address id.
SectorOf(list, id) == list[ById(list, id)].sector

\* inode_reopen of the struct inode at the address id
reopen(list, id) == [list EXCEPT ![ById(list, id)].open_cnt = @ + 1]

\* inode_close of the struct inode at the address id (a null pointer for 0)
close(m, list, id, ub) ==
  IF id = 0 THEN [m |-> m, list |-> list]
  ELSE inode_close(m, list, ById(list, id), ub)

\* The pc of a thread whose call returns.
Return(t) == IF sys_threads[t].op \in Locked THEN "unlock" ELSE "idle"

\* The registers of a thread that left its call.
Leave(t, pc) ==
  [IdleSyscall EXCEPT !.pc = pc, !.op = sys_threads[t].op,
                      !.cur_dir = sys_threads[t].cur_dir]

\* A thread enters create, open, remove, sys_mkdir or sys_chdir.
syscall(t, op, abs, name) ==
  /\ nops < MaxSyscalls
  /\ sys_threads[t].pc = "idle"
  /\ sys_threads' =
       [sys_threads EXCEPT ![t] =
          [IdleSyscall EXCEPT !.pc = IF op \in Locked THEN "lock" ELSE "parse",
                              !.op = op, !.abs = abs, !.name = name,
                              !.cur_dir = sys_threads[t].cur_dir]]
  /\ nops' = nops + 1
  /\ UNCHANGED <<open_inodes, entries, ret, filesys_lock, file_sys_lock, mvars,
                 svars>>

\* lock_acquire (&filesys_lock) in create, remove and open
lock_acquire(t) ==
  /\ sys_threads[t].pc = "lock"
  /\ filesys_lock = 0
  /\ filesys_lock' = t
  /\ sys_threads' = [sys_threads EXCEPT ![t].pc = "parse"]
  /\ UNCHANGED <<open_inodes, entries, ret, file_sys_lock, nops, mvars, svars>>

\* lock_release (&filesys_lock) in create, remove and open
lock_release(t) ==
  /\ sys_threads[t].pc = "unlock"
  /\ filesys_lock' = 0
  /\ sys_threads' = [sys_threads EXCEPT ![t] = Leave(t, "idle")]
  /\ UNCHANGED <<open_inodes, entries, ret, file_sys_lock, nops, mvars, svars>>

\* parse_path: dir_open_root (), which begins an inode_open of the root, or
\* dir_reopen (cur_dir)
parse_path(t) ==
  /\ sys_threads[t].pc = "parse"
  /\ IF sys_threads[t].abs
     THEN /\ sys_threads' = [sys_threads EXCEPT ![t].target = ROOT_DIR_SECTOR,
                                                ![t].next = "body",
                                                ![t].pc = "scan"]
          /\ UNCHANGED open_inodes
     ELSE /\ open_inodes' = reopen(open_inodes, sys_threads[t].cur_dir)
          /\ sys_threads' = [sys_threads EXCEPT ![t].dir = sys_threads[t].cur_dir,
                                                ![t].pc = "body"]
  /\ UNCHANGED <<entries, ret, filesys_lock, file_sys_lock, nops, mvars, svars>>

\* The thread's registers when its inode_open returns the address id: the
\* directory of the path, or the inode of the name.
Opened(t, id) ==
  IF sys_threads[t].next = "body"
  THEN [sys_threads EXCEPT ![t].dir = id, ![t].pc = "body"]
  ELSE [sys_threads EXCEPT ![t].inode = id, ![t].pc = sys_threads[t].next]

\* inode_open, lines 652-662: the scan of open_inodes
inode_open_scan(t) ==
  /\ sys_threads[t].pc = "scan"
  /\ LET i == Find(open_inodes, sys_threads[t].target)
     IN IF i # 0
        THEN /\ open_inodes' = [open_inodes EXCEPT ![i].open_cnt = @ + 1]
             /\ sys_threads' = Opened(t, open_inodes[i].id)
        ELSE /\ sys_threads' = [sys_threads EXCEPT ![t].pc = "insert"]
             /\ UNCHANGED open_inodes
  /\ UNCHANGED <<entries, ret, filesys_lock, file_sys_lock, nops, mvars, svars>>

\* inode_open, lines 664-678: malloc and list_push_front
inode_open_insert(t) ==
  /\ sys_threads[t].pc = "insert"
  /\ open_inodes' =
       <<NewInode(sys_threads[t].target, NewId(open_inodes))>> \o open_inodes
  /\ sys_threads' = Opened(t, NewId(open_inodes))
  /\ UNCHANGED <<entries, ret, filesys_lock, file_sys_lock, nops, mvars, svars>>

\* inode_is_removed (dir_get_inode (dir)), where the calls return without
\* dir_close (dir)
ParentRemoved(t) == open_inodes[ById(open_inodes, sys_threads[t].dir)].removed

\* filesys_create, lines 78-92
filesys_create_body(t, initial_size) ==
  /\ sys_threads[t].pc = "body"
  /\ sys_threads[t].op = "create"
  /\ IF ParentRemoved(t)
     THEN /\ sys_threads' = [sys_threads EXCEPT ![t] = Leave(t, "unlock")]
          /\ UNCHANGED <<entries, file_sys_lock, mvars>>
     ELSE /\ file_sys_lock = 0
          /\ file_sys_lock' = t
          /\ LET a == free_map_allocate(Machine)
                 c == inode_create(a.m, a.sector, initial_size, 0)
                 dir_sector == SectorOf(open_inodes, sys_threads[t].dir)
                 added == dir_lookup(dir_sector, sys_threads[t].name) = 0
                 success == a.ok /\ c.ok /\ added
             IN /\ Install(IF ~a.ok THEN a.m
                           ELSE IF ~c.ok THEN free_map_release(c.m, a.sector)
                           ELSE IF ~added THEN free_map_release(c.m, a.sector)
                           ELSE c.m)
                /\ entries' =
                     IF success
                     THEN entries \cup {[dir |-> dir_sector,
                                         name |-> sys_threads[t].name,
                                         sector |-> a.sector]}
                     ELSE entries
          /\ sys_threads' = [sys_threads EXCEPT ![t].pc = "finish"]
  /\ UNCHANGED <<open_inodes, ret, filesys_lock, nops, svars>>

\* filesys_create, lines 93-96
filesys_create_finish(t, ub) ==
  /\ sys_threads[t].pc = "finish"
  /\ LET c == close(Machine, open_inodes, sys_threads[t].dir, ub)
     IN /\ Install(c.m)
        /\ open_inodes' = c.list
  /\ file_sys_lock' = 0
  /\ sys_threads' = [sys_threads EXCEPT ![t] = Leave(t, "unlock")]
  /\ UNCHANGED <<entries, ret, filesys_lock, nops, svars>>

\* filesys_open, lines 123-134, from open and from sys_chdir
filesys_open_body(t) ==
  /\ sys_threads[t].pc = "body"
  /\ sys_threads[t].op \in {"open", "chdir"}
  /\ IF ParentRemoved(t)
     THEN /\ sys_threads' = [sys_threads EXCEPT ![t] = Leave(t, Return(t))]
          /\ UNCHANGED file_sys_lock
     ELSE /\ file_sys_lock = 0
          /\ file_sys_lock' = t
          /\ LET sector == dir_lookup(SectorOf(open_inodes, sys_threads[t].dir),
                                      sys_threads[t].name)
             IN sys_threads' =
                  IF sector = 0
                  THEN [sys_threads EXCEPT ![t].pc = "opened"]
                  ELSE [sys_threads EXCEPT ![t].target = sector,
                                           ![t].next = "opened",
                                           ![t].pc = "scan"]
  /\ UNCHANGED <<open_inodes, entries, ret, filesys_lock, nops, mvars, svars>>

\* filesys_open, lines 135-140; open keeps the file in the process's table,
\* sys_chdir goes on when the file is not null.
filesys_open_finish(t, ub) ==
  /\ sys_threads[t].pc = "opened"
  /\ LET c == close(Machine, open_inodes, sys_threads[t].dir, ub)
     IN /\ Install(c.m)
        /\ open_inodes' = c.list
  /\ file_sys_lock' = 0
  /\ sys_threads' =
       IF sys_threads[t].op = "chdir" /\ sys_threads[t].inode # 0
       THEN [sys_threads EXCEPT ![t].dir = 0, ![t].pc = "swap"]
       ELSE [sys_threads EXCEPT ![t] = Leave(t, Return(t))]
  /\ UNCHANGED <<entries, ret, filesys_lock, nops, svars>>

\* sys_chdir, lines 384-396: inode_reopen, dir_open, file_close, and
\* dir_close of the old cur_dir
sys_chdir_swap(t, ub) ==
  /\ sys_threads[t].pc = "swap"
  /\ LET opened == reopen(open_inodes, sys_threads[t].inode)
         c1 == close(Machine, opened, sys_threads[t].inode, ub)
         c2 == close(c1.m, c1.list, sys_threads[t].cur_dir, ub)
     IN /\ Install(c2.m)
        /\ open_inodes' = c2.list
  /\ sys_threads' =
       [sys_threads EXCEPT ![t] =
          [IdleSyscall EXCEPT !.op = "chdir",
                              !.cur_dir = sys_threads[t].inode]]
  /\ UNCHANGED <<entries, ret, filesys_lock, file_sys_lock, nops, svars>>

\* filesys_remove, lines 167-176
filesys_remove_body(t) ==
  /\ sys_threads[t].pc = "body"
  /\ sys_threads[t].op = "remove"
  /\ LET sector == dir_lookup(SectorOf(open_inodes, sys_threads[t].dir),
                              sys_threads[t].name)
     IN sys_threads' =
          IF ParentRemoved(t)
          THEN [sys_threads EXCEPT ![t] = Leave(t, "unlock")]
          ELSE IF sector = 0
          THEN [sys_threads EXCEPT ![t].pc = "looked"]
          ELSE [sys_threads EXCEPT ![t].target = sector, ![t].next = "looked",
                                   ![t].pc = "scan"]
  /\ UNCHANGED <<open_inodes, entries, ret, filesys_lock, file_sys_lock, nops,
                 mvars, svars>>

\* filesys_remove, lines 178-206.  dir_remove opens the inode of the entry,
\* clears the entry, marks the inode removed and closes it.
filesys_remove_finish(t, ub) ==
  /\ sys_threads[t].pc = "looked"
  /\ LET inode == sys_threads[t].inode
         dir_sector == SectorOf(open_inodes, sys_threads[t].dir)
         sector == dir_lookup(dir_sector, sys_threads[t].name)
         d == IF inode = 0 THEN [m |-> Machine, h |-> Zeroes(BLOCK_SECTOR_SIZE)]
              ELSE get_disk_inode(Machine, SectorOf(open_inodes, inode))
         is_deletable ==
           ~\E e \in entries : /\ e.dir = SectorOf(open_inodes, inode)
                                /\ e.name \notin {Dot, DotDot}
         success ==
           /\ sector # 0
           /\ (inode # 0 /\ is_dir_of(d.h) # 0) => is_deletable
         marked == inode_open(open_inodes, sector)
         removed == [marked EXCEPT ![Find(marked, sector)].removed = TRUE]
         c0 == IF success
               THEN inode_close(d.m, removed, Find(removed, sector), ub)
               ELSE [m |-> d.m, list |-> open_inodes]
         c1 == close(c0.m, c0.list, inode, ub)
         c2 == close(c1.m, c1.list, sys_threads[t].dir, ub)
     IN /\ Install(c2.m)
        /\ open_inodes' = c2.list
        /\ entries' = IF success
                      THEN entries \ {[dir |-> dir_sector,
                                       name |-> sys_threads[t].name,
                                       sector |-> sector]}
                      ELSE entries
  /\ sys_threads' = [sys_threads EXCEPT ![t] = Leave(t, "unlock")]
  /\ UNCHANGED <<ret, filesys_lock, file_sys_lock, nops, svars>>

\* filesys_create_dir, lines 250-262, up to the call of inode_open; when a
\* step fails, lines 265-270.
filesys_create_dir_body(t, ub) ==
  /\ sys_threads[t].pc = "body"
  /\ sys_threads[t].op = "mkdir"
  /\ IF ParentRemoved(t)
     THEN /\ sys_threads' = [sys_threads EXCEPT ![t] = Leave(t, "idle")]
          /\ UNCHANGED <<open_inodes, entries, mvars>>
     ELSE LET a == free_map_allocate(Machine)
              c == inode_create(a.m, a.sector, BLOCK_SECTOR_SIZE, 1)
              dir_sector == SectorOf(open_inodes, sys_threads[t].dir)
              added == dir_lookup(dir_sector, sys_threads[t].name) = 0
              success == a.ok /\ c.ok /\ added
              m == IF ~a.ok THEN a.m
                   ELSE IF ~c.ok THEN free_map_release(c.m, a.sector)
                   ELSE IF ~added THEN free_map_release(c.m, a.sector)
                   ELSE c.m
              failed == close(m, open_inodes, sys_threads[t].dir, ub)
          IN IF success
             THEN /\ Install(m)
                  /\ entries' =
                       {e \in entries : e.dir # a.sector}
                         \cup {[dir |-> dir_sector,
                                name |-> sys_threads[t].name,
                                sector |-> a.sector]}
                  /\ sys_threads' = [sys_threads EXCEPT ![t].target = a.sector,
                                                        ![t].next = "made",
                                                        ![t].pc = "scan"]
                  /\ UNCHANGED open_inodes
             ELSE /\ Install(failed.m)
                  /\ open_inodes' = failed.list
                  /\ sys_threads' = [sys_threads EXCEPT ![t] = Leave(t, "idle")]
                  /\ UNCHANGED entries
  /\ UNCHANGED <<ret, filesys_lock, file_sys_lock, nops, svars>>

\* filesys_create_dir, lines 262-270, from the return of inode_open
filesys_create_dir_finish(t, ub) ==
  /\ sys_threads[t].pc = "made"
  /\ LET c1 == close(Machine, open_inodes, sys_threads[t].dir, ub)
         c2 == close(c1.m, c1.list, sys_threads[t].inode, ub)
         newDir == SectorOf(open_inodes, sys_threads[t].inode)
     IN /\ Install(c2.m)
        /\ open_inodes' = c2.list
        /\ entries' =
             entries
               \cup {[dir |-> newDir, name |-> Dot, sector |-> newDir],
                     [dir |-> newDir, name |-> DotDot,
                      sector |-> SectorOf(open_inodes, sys_threads[t].dir)]}
  /\ sys_threads' = [sys_threads EXCEPT ![t] = Leave(t, "idle")]
  /\ UNCHANGED <<ret, filesys_lock, file_sys_lock, nops, svars>>

NextOpen ==
  \/ \E t \in Threads, op \in Syscalls, abs \in BOOLEAN, name \in Names :
       syscall(t, op, abs, name)
  \/ \E t \in Threads : lock_acquire(t)
  \/ \E t \in Threads : lock_release(t)
  \/ \E t \in Threads : parse_path(t)
  \/ \E t \in Threads : inode_open_scan(t)
  \/ \E t \in Threads : inode_open_insert(t)
  \/ \E t \in Threads, n \in InitSizes : filesys_create_body(t, n)
  \/ \E t \in Threads, ub \in BeyondBlock : filesys_create_finish(t, ub)
  \/ \E t \in Threads : filesys_open_body(t)
  \/ \E t \in Threads, ub \in BeyondBlock : filesys_open_finish(t, ub)
  \/ \E t \in Threads, ub \in BeyondBlock : sys_chdir_swap(t, ub)
  \/ \E t \in Threads : filesys_remove_body(t)
  \/ \E t \in Threads, ub \in BeyondBlock : filesys_remove_finish(t, ub)
  \/ \E t \in Threads, ub \in BeyondBlock : filesys_create_dir_body(t, ub)
  \/ \E t \in Threads, ub \in BeyondBlock : filesys_create_dir_finish(t, ub)

SpecOpen == Init /\ [][NextOpen]_vars

\* --------------------------------------------------------------------- C7
\* C7: under any interleaving of create, open, remove, mkdir and chdir, the
\* list open_inodes never holds two elements with the same sector.
C7_OneInodePerSector ==
  \A i, j \in 1 .. Len(open_inodes) :
    i # j => open_inodes[i].sector # open_inodes[j].sector

\* ------------------------------------------------- the facade, one thread
\* filesys_create, filesys_create_dir, filesys_remove, sys_chdir and
\* filesys_done, each run from its call to its return by thread 1, with the
\* paths parsed as parse_path parses them.  The operators thread
\*   fs = [m, list, ents]
\* the machine, open_inodes and the directory entries.

\* Characters a file name may have (14 in directory.h).
NAME_MAX == 2

\* Calls of the facade explored.
MaxPathOps == 4

\* strlcpy (dst, src, size): dst afterwards, and the value returned,
\* strlen (src).
strlcpy(src, size) ==
  [dst |-> SubSeq(src, 1, MinOf(Len(src), size - 1)), ret |-> Len(src)]

\* The tokens that successive strtok_r (.., "/", &savePtr) calls return.
RECURSIVE Tokens(_, _, _)
Tokens(s, i, cur) ==
  IF i > Len(s)
  THEN IF cur = <<>> THEN <<>> ELSE <<cur>>
  ELSE IF s[i] = "/"
  THEN (IF cur = <<>> THEN <<>> ELSE <<cur>>) \o Tokens(s, i + 1, <<>>)
  ELSE Tokens(s, i + 1, Append(cur, s[i]))

strtok_r(path_name) == Tokens(path_name, 1, <<>>)

FileSys == [m |-> Machine, list |-> open_inodes, ents |-> entries]

\* The inode sector of the live entry NAME of the directory, 0 when none.
lookup(ents, dir_sector, name) ==
  LET hits == {e \in ents : e.dir = dir_sector /\ e.name = name}
  IN IF hits = {} THEN 0 ELSE (CHOOSE e \in hits : TRUE).sector

\* inode_open (sector) when malloc succeeds: [fs, id]
open_sector(fs, sector) ==
  Let(inode_open(fs.list, sector),
      LAMBDA l :
        [fs |-> [fs EXCEPT !.list = l], id |-> l[Find(l, sector)].id])

\* inode_close / dir_close / file_close of the struct inode at the address id
close_id(fs, id, ub) ==
  Let(close(fs.m, fs.list, id, ub),
      LAMBDA c : [fs EXCEPT !.m = c.m, !.list = c.list])

\* inode_is_dir (inode): [fs, is_dir]
inode_is_dir(fs, id) ==
  Let(get_disk_inode(fs.m, SectorOf(fs.list, id)),
      LAMBDA d : [fs |-> [fs EXCEPT !.m = d.m], is_dir |-> is_dir_of(d.h) # 0])

\* inode_is_removed (inode)
inode_is_removed(fs, id) == fs.list[ById(fs.list, id)].removed

\* dir_add (dir, name, inode_sector): [fs, ok]
dir_add(fs, dir_sector, name, inode_sector) ==
  IF Len(name) = 0 \/ Len(name) > NAME_MAX
       \/ lookup(fs.ents, dir_sector, name) # 0
  THEN [fs |-> fs, ok |-> FALSE]
  ELSE [fs |-> [fs EXCEPT !.ents = @ \cup {[dir |-> dir_sector, name |-> name,
                                            sector |-> inode_sector]}],
        ok |-> TRUE]

\* dir_remove (dir, name): the entry is erased and its inode marked removed.
dir_remove(fs, dir_sector, name, ub) ==
  LET sector == lookup(fs.ents, dir_sector, name)
  IN IF sector = 0
     THEN [fs |-> fs, ok |-> FALSE]
     ELSE Let(open_sector(fs, sector),
              LAMBDA o :
                [fs |-> close_id(
                          [o.fs EXCEPT
                             !.ents = @ \ {[dir |-> dir_sector, name |-> name,
                                            sector |-> sector]},
                             !.list[ById(o.fs.list, o.id)].removed = TRUE],
                          o.id, ub),
                 ok |-> TRUE])

\* The while loop of parse_path: [fs, dir, token]; dir = 0 is the return of
\* NULL, which leaves dir (and an inode that is no directory) open.
RECURSIVE parse_loop(_, _, _, _)
parse_loop(fs, dir, tokens, ub) ==
  IF Len(tokens) < 2
  THEN [fs |-> fs, dir |-> dir,
        token |-> IF tokens = <<>> THEN Dot ELSE tokens[1]]
  ELSE LET sector == lookup(fs.ents, SectorOf(fs.list, dir), tokens[1])
       IN IF sector = 0
          THEN [fs |-> fs, dir |-> 0, token |-> <<>>]
          ELSE Let(open_sector(fs, sector),
                   LAMBDA o :
                     Let(inode_is_dir(o.fs, o.id),
                         LAMBDA d :
                           IF ~d.is_dir
                           THEN [fs |-> d.fs, dir |-> 0, token |-> <<>>]
                           ELSE parse_loop(close_id(d.fs, dir, ub), o.id,
                                           Tail(tokens), ub)))

\* parse_path that starts every path at the current directory.
start_dir_cur(fs, cur_dir, path_name) ==
  [fs |-> [fs EXCEPT !.list = reopen(fs.list, cur_dir)], id |-> cur_dir]

\* parse_path, lines 291-296: dir_open_root () for a path that starts with
\* '/', dir_reopen (cur_dir) for any other.  [fs, id]
start_dir(fs, cur_dir, path_name) ==
  IF path_name[1] = "/"
  THEN open_sector(fs, ROOT_DIR_SECTOR)
  ELSE [fs |-> [fs EXCEPT !.list = reopen(fs.list, cur_dir)], id |-> cur_dir]

\* parse_path (path_name, file_name) called by a thread whose current
\* directory is cur_dir: [fs, dir, file_name], dir = 0 for NULL.
parse_path_from(fs, cur_dir, path_name, ub) ==
  IF Len(path_name) = 0
  THEN [fs |-> fs, dir |-> 0, file_name |-> <<>>]
  ELSE Let(start_dir(fs, cur_dir, path_name),
           LAMBDA start :
             Let(parse_loop(start.fs, start.id, strtok_r(path_name), ub),
                 LAMBDA p :
                   IF p.dir = 0
                   THEN [fs |-> p.fs, dir |-> 0, file_name |-> <<>>]
                   ELSE IF strlcpy(p.token, NAME_MAX + 1).ret > NAME_MAX + 1
                   THEN [fs |-> p.fs, dir |-> 0, file_name |-> <<>>]
                   ELSE [fs |-> p.fs, dir |-> p.dir,
                         file_name |-> strlcpy(p.token, NAME_MAX + 1).dst]))

\* What a call of the facade returns without having changed anything but fs.
Failed(p) ==
  [fs |-> p.fs, val |-> FALSE, dir |-> -1, file_name |-> p.file_name,
   inode_sector |-> 0]

\* The directory the path resolved to, for the record of the call.
DirSector(p) == IF p.dir = 0 THEN -1 ELSE SectorOf(p.fs.list, p.dir)

\* inode_create on a sector just allocated: what the sector held as a
\* directory before is gone.
Fresh(fs, m, sector) ==
  [fs EXCEPT !.m = m, !.ents = {e \in @ : e.dir # sector}]

\* filesys_create (name, initial_size)
filesys_create_call(fs, cur_dir, name, initial_size, ub) ==
  Let(parse_path_from(fs, cur_dir, name, ub),
      LAMBDA p :
        IF p.dir = 0 THEN Failed(p)
        ELSE IF inode_is_removed(p.fs, p.dir)
        THEN [Failed(p) EXCEPT !.dir = DirSector(p)]
        ELSE Let(free_map_allocate(p.fs.m),
                 LAMBDA a :
                   Let(IF a.ok
                       THEN inode_create(a.m, a.sector, initial_size, 0)
                       ELSE [m |-> a.m, ok |-> FALSE],
                       LAMBDA c :
                         Let(IF c.ok
                             THEN dir_add(Fresh(p.fs, c.m, a.sector),
                                          DirSector(p), p.file_name, a.sector)
                             ELSE [fs |-> [p.fs EXCEPT !.m = c.m],
                                   ok |-> FALSE],
                             LAMBDA d :
                               [fs |-> close_id(
                                         IF ~d.ok /\ a.ok
                                         THEN [d.fs EXCEPT
                                                 !.m = free_map_release(
                                                         @, a.sector)]
                                         ELSE d.fs,
                                         p.dir, ub),
                                val |-> d.ok,
                                dir |-> DirSector(p),
                                file_name |-> p.file_name,
                                inode_sector |-> IF a.ok THEN a.sector
                                                 ELSE 0]))))

\* Lines 262-264 of filesys_create_dir: inode_open (NULL when malloc fails),
\* dir_open, and the entries "." and ".." of the new directory.
\* [fs, ok, newDir]
open_new_dir(fs, inode_sector, parent_sector, malloc_ok) ==
  IF ~malloc_ok /\ Find(fs.list, inode_sector) = 0
  THEN [fs |-> fs, ok |-> FALSE, newDir |-> 0]
  ELSE Let(open_sector(fs, inode_sector),
           LAMBDA o :
             Let(dir_add(o.fs, inode_sector, Dot, inode_sector),
                 LAMBDA d1 :
                   Let(IF d1.ok
                       THEN dir_add(d1.fs, inode_sector, DotDot, parent_sector)
                       ELSE d1,
                       LAMBDA d2 :
                         [fs |-> d2.fs, ok |-> d2.ok, newDir |-> o.id])))

\* filesys_create_dir (name)
filesys_create_dir_call(fs, cur_dir, name, malloc_ok, ub) ==
  Let(parse_path_from(fs, cur_dir, name, ub),
      LAMBDA p :
        IF p.dir = 0 THEN Failed(p)
        ELSE IF inode_is_removed(p.fs, p.dir)
        THEN [Failed(p) EXCEPT !.dir = DirSector(p)]
        ELSE Let(free_map_allocate(p.fs.m),
                 LAMBDA a :
                   Let(IF a.ok
                       THEN inode_create(a.m, a.sector, BLOCK_SECTOR_SIZE, 1)
                       ELSE [m |-> a.m, ok |-> FALSE],
                       LAMBDA c :
                         Let(IF c.ok
                             THEN dir_add(Fresh(p.fs, c.m, a.sector),
                                          DirSector(p), p.file_name, a.sector)
                             ELSE [fs |-> [p.fs EXCEPT !.m = c.m],
                                   ok |-> FALSE],
                             LAMBDA d :
                               Let(IF d.ok
                                   THEN open_new_dir(d.fs, a.sector,
                                                     DirSector(p), malloc_ok)
                                   ELSE [fs |-> d.fs, ok |-> FALSE,
                                         newDir |-> 0],
                                   LAMBDA n :
                                     [fs |-> close_id(
                                               close_id(
                                                 IF ~n.ok /\ a.ok
                                                 THEN [n.fs EXCEPT
                                                         !.m = free_map_release(
                                                                 @, a.sector)]
                                                 ELSE n.fs,
                                                 p.dir, ub),
                                               n.newDir, ub),
                                      val |-> n.ok,
                                      dir |-> DirSector(p),
                                      file_name |-> p.file_name,
                                      inode_sector |-> IF a.ok THEN a.sector
                                                       ELSE 0])))))

\* filesys_remove without the loop over dir_readdir.
is_deletable_always(fs, sector) == TRUE

\* The loop over dir_readdir in filesys_remove: no name but "." and "..".
is_deletable(fs, sector) ==
  ~\E e \in fs.ents : e.dir = sector /\ e.name \notin {Dot, DotDot}

\* filesys_remove (name)
filesys_remove_call(fs, cur_dir, name, ub) ==
  Let(parse_path_from(fs, cur_dir, name, ub),
      LAMBDA p :
        IF p.dir = 0 THEN Failed(p)
        ELSE IF inode_is_removed(p.fs, p.dir)
        THEN [Failed(p) EXCEPT !.dir = DirSector(p)]
        ELSE LET sector == lookup(p.fs.ents, DirSector(p), p.file_name)
             IN Let(IF sector = 0 THEN [fs |-> p.fs, id |-> 0]
                    ELSE open_sector(p.fs, sector),
                    LAMBDA o :
                      Let(IF o.id = 0 THEN [fs |-> o.fs, is_dir |-> FALSE]
                          ELSE inode_is_dir(o.fs, o.id),
                          LAMBDA i :
                            Let(IF i.is_dir /\ ~is_deletable(i.fs, sector)
                                THEN [fs |-> i.fs, ok |-> FALSE]
                                ELSE dir_remove(i.fs, DirSector(p),
                                                p.file_name, ub),
                                LAMBDA r :
                                  [fs |-> close_id(close_id(r.fs, o.id, ub),
                                                   p.dir, ub),
                                   val |-> r.ok,
                                   dir |-> DirSector(p),
                                   file_name |-> p.file_name,
                                   inode_sector |-> sector]))))

\* sys_chdir (dir): filesys_open, inode_reopen, dir_open, file_close, and the
\* swap of cur_dir.  [fs, val, dir, file_name, inode_sector, cur_dir]
sys_chdir_call(fs, cur_dir, name, ub) ==
  Let(parse_path_from(fs, cur_dir, name, ub),
      LAMBDA p :
        IF p.dir = 0 THEN [cur_dir |-> cur_dir] @@ Failed(p)
        ELSE IF inode_is_removed(p.fs, p.dir)
        THEN [cur_dir |-> cur_dir]
               @@ [Failed(p) EXCEPT !.dir = DirSector(p)]
        ELSE LET sector == lookup(p.fs.ents, DirSector(p), p.file_name)
             IN Let(IF sector = 0 THEN [fs |-> p.fs, id |-> 0]
                    ELSE open_sector(p.fs, sector),
                    LAMBDA o :
                      Let(close_id(o.fs, p.dir, ub),
                          LAMBDA f :
                            IF o.id = 0
                            THEN [fs |-> f, val |-> FALSE,
                                  dir |-> DirSector(p),
                                  file_name |-> p.file_name,
                                  inode_sector |-> 0, cur_dir |-> cur_dir]
                            ELSE [fs |-> close_id(
                                           close_id(
                                             [f EXCEPT
                                                !.list = reopen(@, o.id)],
                                             o.id, ub),
                                           cur_dir, ub),
                                  val |-> TRUE,
                                  dir |-> DirSector(p),
                                  file_name |-> p.file_name,
                                  inode_sector |-> sector,
                                  cur_dir |-> o.id])))

\* free_map_close (): file_close (free_map_file)
free_map_close(fs, ub) ==
  close_id(fs, fs.list[Find(fs.list, FREE_MAP_SECTOR)].id, ub)

\* The paths the calls are given.
Paths ==
  {<<>>, <<"/">>, <<"a">>, <<"/", "a">>, <<"a", "/", "a">>,
   <<"a", "/", ".">>, <<".", ".">>, <<"a", "a", "a">>,
   <<"a", "a", "a", "a">>}

\* The one thread that calls, and its working directory.
cur_dir == sys_threads[1].cur_dir

\* The file system is mounted: filesys_done has not run.
Mounted == Find(open_inodes, FREE_MAP_SECTOR) # 0

pvars == <<hist, fresh, nfiles, bc_threads, latest, filesys_lock,
           file_sys_lock>>

\* The state after a call, and the record of the call: the path (DATA), the
\* directory it resolved to (SECTOR, -1 for none), the leaf name (BEFORE), the
\* sector allocated or found (SIZE), the return value (VAL) and the sectors
\* released (REL).
Returned(op, name, r, malloc_ok) ==
  /\ Install(r.fs.m)
  /\ open_inodes' = r.fs.list
  /\ entries' = r.fs.ents
  /\ ret' = [NoCall EXCEPT !.op = op, !.data = name, !.sector = r.dir,
                           !.before = r.file_name, !.size = r.inode_sector,
                           !.val = IF r.val THEN 1 ELSE 0,
                           !.rel = r.fs.m.rel, !.malloc = malloc_ok]
  /\ nops' = nops + 1

filesys_create(name, initial_size) ==
  /\ ~panicked
  /\ Mounted
  /\ nops < MaxPathOps
  /\ \E ub \in BeyondBlock :
       Returned("filesys_create", name,
                filesys_create_call(FileSys, cur_dir, name, initial_size, ub),
                TRUE)
  /\ UNCHANGED <<pvars, sys_threads>>

filesys_create_dir(name) ==
  /\ ~panicked
  /\ Mounted
  /\ nops < MaxPathOps
  /\ \E ub \in BeyondBlock, malloc_ok \in BOOLEAN :
       Returned("filesys_create_dir", name,
                filesys_create_dir_call(FileSys, cur_dir, name, malloc_ok, ub),
                malloc_ok)
  /\ UNCHANGED <<pvars, sys_threads>>

filesys_remove(name) ==
  /\ ~panicked
  /\ Mounted
  /\ nops < MaxPathOps
  /\ \E ub \in BeyondBlock :
       Returned("filesys_remove", name,
                filesys_remove_call(FileSys, cur_dir, name, ub), TRUE)
  /\ UNCHANGED <<pvars, sys_threads>>

sys_chdir(name) ==
  /\ ~panicked
  /\ Mounted
  /\ nops < MaxPathOps
  /\ \E ub \in BeyondBlock :
       Let(sys_chdir_call(FileSys, cur_dir, name, ub),
           LAMBDA r :
             /\ Returned("sys_chdir", name, r, TRUE)
             /\ sys_threads' = [sys_threads EXCEPT ![1].cur_dir = r.cur_dir])
  /\ UNCHANGED pvars

\* filesys_done (): free_map_close (), and nothing else.
filesys_done ==
  /\ ~panicked
  /\ Mounted
  /\ \E ub \in BeyondBlock :
       Returned("filesys_done", <<>>,
                [fs |-> free_map_close(FileSys, ub), val |-> TRUE, dir |-> -1,
                 file_name |-> <<>>, inode_sector |-> 0], TRUE)
  /\ UNCHANGED <<pvars, sys_threads>>

NextPath ==
  \/ \E name \in Paths, initial_size \in InitSizes :
       filesys_create(name, initial_size)
  \/ \E name \in Paths : filesys_create_dir(name)
  \/ \E name \in Paths : filesys_remove(name)
  \/ \E name \in Paths : sys_chdir(name)
  \/ filesys_done

SpecPath == Init /\ [][NextPath]_vars

\* -------------------------------------------------------------------- C11
\* C11: after filesys_done has returned, no buffer head is dirty and every
\* sector of the device holds what the cache delivers for it, that is, every
\* byte written through the file system before the shutdown.
C11_ShutdownFlushes ==
  ret.op = "filesys_done" =>
    /\ \A i \in Slots : ~buffer_head[i].dirty
    /\ \A s \in Sectors : disk[s] = View(Machine, s)

\* -------------------------------------------------------------------- C12
\* A call of filesys_create or filesys_create_dir.
IsCreate == IsCall("filesys_create") \/ IsCall("filesys_create_dir")

\* The call found a live entry of its leaf name in the directory it
\* resolved to: the sector of that entry, 0 when there is none.
Existing == lookup(entries, ret'.sector, ret'.before)

\* No directory holds two live entries with one name.
UniqueNames ==
  \A e1 \in entries, e2 \in entries :
    e1.dir = e2.dir /\ e1.name = e2.name => e1 = e2

\* Creating a name that has a live entry returns false and leaves that
\* entry, the header of its inode and its struct inode unchanged.
CreateExisting ==
  [][\A s \in Sectors :
       IsCreate /\ s # 0 /\ Existing = s =>
         /\ ret'.val = 0
         /\ [dir |-> ret'.sector, name |-> ret'.before, sector |-> s]
              \in entries'
         /\ View(Machine, s)' = View(Machine, s)
         /\ \A i \in 1 .. Len(open_inodes) :
              open_inodes[i].sector = s =>
                /\ Find(open_inodes', s) # 0
                /\ open_inodes'[Find(open_inodes', s)] = open_inodes[i]]_vars

\* After a successful filesys_remove of a name, the next call, creating that
\* name with memory to do it, succeeds.
CreateAfterRemove ==
  [][/\ ret.op = "filesys_remove"
     /\ ret.val = 1
     /\ IsCreate
     /\ ret'.data = ret.data
     /\ ret'.malloc
     => ret'.val = 1]_vars

\* C12: no directory ever holds two live entries with one name; filesys_create
\* or filesys_create_dir of a name that has a live entry returns false and
\* leaves the entry and its inode unchanged; and after a successful
\* filesys_remove of a name, creating that name again succeeds.
C12_NameUniqueness ==
  /\ []UniqueNames
  /\ CreateExisting
  /\ CreateAfterRemove

\* -------------------------------------------------------------------- C13
\* The directory in sector s has a live entry other than "." and "..".
HasChild(s) == \E e \in entries : e.dir = s /\ e.name \notin {Dot, DotDot}

\* The inode in sector s is a directory.
IsDirectory(s) == is_dir_of(View(Machine, s)) # 0

\* The struct inode of sector s is marked removed.
MarkedRemoved(list, s) ==
  \E i \in 1 .. Len(list) : list[i].sector = s /\ list[i].removed

\* The step is a filesys_remove whose path resolved to a directory that is
\* not marked removed, and whose leaf names the directory in sector s.
RemovesDirectory(s) ==
  /\ IsCall("filesys_remove")
  /\ s # 0
  /\ ret'.sector # -1
  /\ ~MarkedRemoved(open_inodes, ret'.sector)
  /\ lookup(entries, ret'.sector, ret'.before) = s
  /\ IsDirectory(s)

\* C13: filesys_remove of a directory that holds a live entry other than "."
\* and ".." returns false, leaves the entry in the parent in use and does not
\* mark the directory's inode removed; filesys_remove of a directory that
\* holds no such entry (its last child has been removed) succeeds.
C13_RemoveDirectory ==
  [][\A s \in Sectors :
       RemovesDirectory(s) =>
         IF HasChild(s)
         THEN /\ ret'.val = 0
              /\ [dir |-> ret'.sector, name |-> ret'.before, sector |-> s]
                   \in entries'
              /\ ~MarkedRemoved(open_inodes', s)
         ELSE ret'.val = 1]_vars

\* filesys_remove ("a") was refused: "a" is a directory on an allocated
\* sector that holds a live entry for another allocated inode.
C13_Witness ==
  /\ ret.op = "filesys_remove"
  /\ ret.data = <<"a">>
  /\ ret.val = 0
  /\ ret.size \in free_map
  /\ IsDirectory(ret.size)
  /\ [dir |-> ret.sector, name |-> <<"a">>, sector |-> ret.size] \in entries
  /\ \E e \in entries :
       /\ e.dir = ret.size
       /\ e.name = <<"a">>
       /\ e.sector \in free_map \ {ret.size}

\* -------------------------------------------------------------------- C14
\* The directories: the root, and every inode with a directory header that a
\* live entry other than "." and ".." names.
Directories ==
  {ROOT_DIR_SECTOR}
    \cup {e.sector : e \in {x \in entries : /\ x.name \notin {Dot, DotDot}
                                            /\ IsDirectory(x.sector)}}

\* The directories that hold the entry naming s; the root is its own parent.
Parents(s) ==
  IF s = ROOT_DIR_SECTOR THEN {ROOT_DIR_SECTOR}
  ELSE {e.dir : e \in {x \in entries : /\ x.sector = s
                                       /\ x.name \notin {Dot, DotDot}}}

\* C14: every directory that is not marked removed holds a live entry "."
\* that refers to the directory itself and a live entry ".." that refers to
\* its parent, the root being its own parent.
C14_DotEntries ==
  \A s \in Directories :
    ~MarkedRemoved(open_inodes, s) =>
      /\ lookup(entries, s, Dot) = s
      /\ lookup(entries, s, DotDot) \in Parents(s)

\* -------------------------------------------------------------------- C15
\* C15: every live directory entry refers to an inode sector that is
\* allocated in the free-map; a filesys_create or filesys_create_dir that
\* released the sector it had allocated leaves no entry that refers to it.
C15_EntriesAllocated ==
  /\ \A e \in entries : e.sector \in free_map
  /\ ret.op \in {"filesys_create", "filesys_create_dir"} /\ ret.val = 0 =>
       \A e \in entries : \A i \in 1 .. Len(ret.rel) : e.sector # ret.rel[i]

\* ------------------------------------------- create, write and close alone
\* The inode layer without inode_remove: files are created, opened, written
\* and closed by one thread.
NextWrite ==
  \/ \E n \in InitSizes : Create(n)
  \/ \E s \in Sectors : Open(s)
  \/ \E s \in Sectors, ub \in BeyondBlock : Close(s, ub)
  \/ \E s \in Sectors, a \in WriteArgs : WriteAt(s, a[1], a[2])

SpecWrite == Init /\ [][NextWrite]_vars

\* -------------------------------------------------------------------- C16
\* The inodes that have not been released: the free-map file, the root
\* directory and every file with a name.
LiveInodes ==
  {FREE_MAP_SECTOR, ROOT_DIR_SECTOR} \cup {e.sector : e \in entries}

Indexes == 0 .. INDIRECT_BLOCK_ENTRIES - 1

\* The sector-pointer slots of the inode in sector s, each with the sector
\* number it holds: <<inode, kind, index1, index2, sector>>.
PointerSlots(s) ==
  LET h == View(Machine, s)
      ind == indirect_block_sec(h)
      dbl == double_indirect_block_sec(h)
  IN {<<s, "direct", i, 0, direct_map_table(h, i)>> :
        i \in 0 .. DIRECT_BLOCK_ENTRIES - 1}
       \cup {<<s, "indirect_block_sec", 0, 0, ind>>,
             <<s, "double_indirect_block_sec", 0, 0, dbl>>}
       \cup (IF ind = 0 THEN {}
             ELSE {<<s, "indirect", i, 0, At(View(Machine, ind), i)>> :
                     i \in Indexes})
       \cup (IF dbl = 0 THEN {}
             ELSE {<<s, "double", i, 0, At(View(Machine, dbl), i)>> :
                     i \in Indexes})
       \cup (IF dbl = 0 THEN {}
             ELSE UNION {IF At(View(Machine, dbl), i) = 0 THEN {}
                         ELSE {<<s, "second", i, j,
                                 At(View(Machine, At(View(Machine, dbl), i)),
                                    j)>> : j \in Indexes} :
                         i \in Indexes})

AllPointerSlots == UNION {PointerSlots(s) : s \in LiveInodes}

\* C16: for every inode that has not been released, each sector number in a
\* direct slot, in the indirect and double-indirect header fields or in an
\* entry of an index block is 0 or allocated in the free-map; every byte
\* position below the file length maps to a non-zero sector; and no sector
\* is referenced from two slots.
C16_SectorPointers ==
  /\ \A p \in AllPointerSlots : p[5] = 0 \/ p[5] \in free_map
  /\ \A s \in LiveInodes :
       \A pos \in 0 .. FileLength(s) - 1 :
         byte_to_sector(Machine, View(Machine, s), pos).sec # 0
  /\ \A p \in AllPointerSlots, q \in AllPointerSlots :
       p[5] # 0 /\ p[5] = q[5] => p = q

\* A file that was written up to the double-indirect range was closed.
C16_Witness ==
  /\ ret.op = "close"
  /\ ret.val = 1
  /\ FileLength(ret.sector) > DoubleStart

\* --------------------------------------------------- openers and deny-write
\* Each thread holds at most one file handle: the struct inode it refers to
\* (sys_threads[t].inode, 0 for none) and whether it denied writes
\* (deny_write).  An opener calls inode_deny_write at most once and calls
\* inode_allow_write before it closes.

\* inode_allow_write without the decrement.
inode_allow_write_keep(list, id) ==
  LET inode == list[ById(list, id)]
  IN [list |-> list,
      panic |-> ~(inode.deny_write_cnt > 0
                    /\ inode.deny_write_cnt <= inode.open_cnt)]

\* inode_deny_write (inode): [list, panic]; panic when the ASSERT fails.
inode_deny_write(list, id) ==
  LET i == ById(list, id)
      cnt == list[i].deny_write_cnt + 1
  IN [list |-> [list EXCEPT ![i].deny_write_cnt = cnt],
      panic |-> ~(cnt <= list[i].open_cnt)]

\* inode_allow_write (inode): [list, panic]; panic when an ASSERT fails.
inode_allow_write(list, id) ==
  LET i == ById(list, id)
      inode == list[i]
  IN [list |-> [list EXCEPT ![i].deny_write_cnt = @ - 1],
      panic |-> ~(inode.deny_write_cnt > 0
                    /\ inode.deny_write_cnt <= inode.open_cnt)]

dvars == <<buffer_head, clock_hand, disk, free_map, entries, hist, fresh,
           nfiles, nops, bc_threads, latest, filesys_lock, file_sys_lock>>

Handle(t, id, deny_write) ==
  [sys_threads EXCEPT ![t].inode = id, ![t].deny_write = deny_write]

\* inode_open (sector) by a thread without a handle
file_open(t, sector) ==
  /\ ~panicked
  /\ sys_threads[t].inode = 0
  /\ \E e \in entries : e.sector = sector
  /\ LET list == inode_open(open_inodes, sector)
     IN /\ open_inodes' = list
        /\ sys_threads' = Handle(t, list[Find(list, sector)].id, FALSE)
  /\ ret' = [NoCall EXCEPT !.op = "inode_open", !.sector = sector]
  /\ UNCHANGED <<dvars, panicked>>

\* inode_reopen of the inode of thread u's handle, for a handle of thread t
file_reopen(t, u) ==
  /\ ~panicked
  /\ sys_threads[t].inode = 0
  /\ sys_threads[u].inode # 0
  /\ open_inodes' = reopen(open_inodes, sys_threads[u].inode)
  /\ sys_threads' = Handle(t, sys_threads[u].inode, FALSE)
  /\ ret' = [NoCall EXCEPT !.op = "inode_reopen",
                           !.sector = SectorOf(open_inodes,
                                               sys_threads[u].inode)]
  /\ UNCHANGED <<dvars, panicked>>

\* inode_deny_write, by an opener that has not denied
file_deny_write(t) ==
  /\ ~panicked
  /\ sys_threads[t].inode # 0
  /\ ~sys_threads[t].deny_write
  /\ LET d == inode_deny_write(open_inodes, sys_threads[t].inode)
     IN /\ open_inodes' = d.list
        /\ panicked' = d.panic
  /\ sys_threads' = Handle(t, sys_threads[t].inode, TRUE)
  /\ ret' = [NoCall EXCEPT !.op = "inode_deny_write",
                           !.sector = SectorOf(open_inodes,
                                               sys_threads[t].inode)]
  /\ UNCHANGED dvars

\* inode_allow_write, by an opener that denied
file_allow_write(t) ==
  /\ ~panicked
  /\ sys_threads[t].inode # 0
  /\ sys_threads[t].deny_write
  /\ LET a == inode_allow_write(open_inodes, sys_threads[t].inode)
     IN /\ open_inodes' = a.list
        /\ panicked' = a.panic
  /\ sys_threads' = Handle(t, sys_threads[t].inode, FALSE)
  /\ ret' = [NoCall EXCEPT !.op = "inode_allow_write",
                           !.sector = SectorOf(open_inodes,
                                               sys_threads[t].inode)]
  /\ UNCHANGED dvars

\* inode_close, by an opener that does not deny
file_close(t, ub) ==
  /\ ~panicked
  /\ sys_threads[t].inode # 0
  /\ ~sys_threads[t].deny_write
  /\ LET c == close(Machine, open_inodes, sys_threads[t].inode, ub)
     IN /\ open_inodes' = c.list
        /\ Install(c.m)
  /\ sys_threads' = Handle(t, 0, FALSE)
  /\ ret' = [NoCall EXCEPT !.op = "inode_close",
                           !.sector = SectorOf(open_inodes,
                                               sys_threads[t].inode)]
  /\ UNCHANGED <<entries, hist, fresh, nfiles, nops, bc_threads, latest,
                 filesys_lock, file_sys_lock>>

NextDeny ==
  \/ \E n \in InitSizes : Create(n)
  \/ \E t \in Threads, s \in Sectors : file_open(t, s)
  \/ \E t \in Threads, u \in Threads : file_reopen(t, u)
  \/ \E t \in Threads : file_deny_write(t)
  \/ \E t \in Threads : file_allow_write(t)
  \/ \E t \in Threads, ub \in BeyondBlock : file_close(t, ub)

SpecDeny == Init /\ [][NextDeny]_vars

\* -------------------------------------------------------------------- C17
\* C17: for every open inode 0 <= deny_write_cnt <= open_cnt, and no
\* assertion of inode_deny_write or inode_allow_write has failed.
C17_DenyWriteCount ==
  /\ ~panicked
  /\ \A i \in 1 .. Len(open_inodes) :
       /\ 0 <= open_inodes[i].deny_write_cnt
       /\ open_inodes[i].deny_write_cnt <= open_inodes[i].open_cnt

\* Two openers of one file both denied writes, and one has allowed them
\* again.
C17_Witness ==
  /\ ret.op = "inode_allow_write"
  /\ \E i \in 1 .. Len(open_inodes) :
       /\ open_inodes[i].sector = ret.sector
       /\ open_inodes[i].deny_write_cnt = 1
       /\ open_inodes[i].open_cnt = 2
  /\ \E t \in Threads : sys_threads[t].deny_write

\* -------------------------------------------------------------------- C18
\* The step is a call of the facade with this path.
IsPathCall(path) ==
  /\ nops' # nops
  /\ ret'.op \in {"filesys_create", "filesys_create_dir", "filesys_remove",
                  "sys_chdir"}
  /\ ret'.data = path

\* Where the resolution of a path starts.
Start(path) ==
  IF path # <<>> /\ path[1] = "/" THEN ROOT_DIR_SECTOR
  ELSE SectorOf(open_inodes, cur_dir)

\* The directory that holds the last of the tokens, walking from the
\* directory in sector s; -1 when a token on the way names no directory.
RECURSIVE Walk(_, _)
Walk(s, tokens) ==
  IF Len(tokens) <= 1 THEN s
  ELSE LET next == lookup(entries, s, tokens[1])
       IN IF next = 0 \/ ~IsDirectory(next) THEN -1
          ELSE Walk(next, Tail(tokens))

\* parse_path of "/" hands out a handle on the root directory: the root's
\* struct inode, opened once more, with the leaf name ".".
RootHandle ==
  \A ub \in BeyondBlock :
    Let(parse_path_from(FileSys, cur_dir, <<"/">>, ub),
        LAMBDA p :
          /\ p.dir # 0
          /\ SectorOf(p.fs.list, p.dir) = ROOT_DIR_SECTOR
          /\ p.fs.list[ById(p.fs.list, p.dir)].open_cnt
               = Inode(ROOT_DIR_SECTOR).open_cnt + 1
          /\ p.file_name = Dot)

\* C18 with the empty path resolving as "/" does: the empty path and "/" both
\* resolve to the root directory with the leaf name ".".
C18_EmptyPathIsRoot ==
  [][\A path \in {<<>>, <<"/">>} :
       IsPathCall(path) =>
         ret'.sector = ROOT_DIR_SECTOR /\ ret'.before = Dot]_vars

\* C18: parse_path of "/" returns an open handle on the root directory with
\* the leaf name "."; parse_path of the empty path fails; a path that starts
\* with '/' is resolved from the root and any other path from the caller's
\* current directory.
C18_ParsePath ==
  /\ []RootHandle
  /\ [][\A path \in Paths :
          IsPathCall(path) =>
            /\ path = <<>> => ret'.sector = -1
            /\ path = <<"/">> =>
                 ret'.sector = ROOT_DIR_SECTOR /\ ret'.before = Dot
            /\ ret'.sector # -1 =>
                 ret'.sector = Walk(Start(path), strtok_r(path))]_vars

\* A thread whose current directory is not the root called with "/" and the
\* path resolved to the root with the leaf name ".".
C18_Witness ==
  /\ ret.data = <<"/">>
  /\ ret.op = "filesys_create"
  /\ ret.sector = ROOT_DIR_SECTOR
  /\ ret.before = Dot
  /\ SectorOf(open_inodes, cur_dir) # ROOT_DIR_SECTOR

\* -------------------------------------------------------------------- C19
\* The final component of a path ("." when the path has none).
Leaf(path) ==
  LET tokens == strtok_r(path)
  IN IF tokens = <<>> THEN Dot ELSE tokens[Len(tokens)]

\* C19: parse_path returns no directory for a path whose final component is
\* longer than NAME_MAX characters, a component of NAME_MAX + 1 characters
\* included; and a filesys_create that succeeds has made its entry under the
\* final component of its path, not under a shorter name.
C19_LongNameRejected ==
  [][\A path \in Paths :
       IsPathCall(path) =>
         /\ Len(Leaf(path)) > NAME_MAX => ret'.sector = -1
         /\ ret'.op = "filesys_create" /\ ret'.val = 1 =>
              /\ ret'.before = Leaf(path)
              /\ \E e \in entries' \ entries : e.name = Leaf(path)]_vars

\* -------------------------------------------------------------------- C20
\* The previous current directory was closed once: its struct inode is gone
\* or has one opener less.
ClosedOnce(id) ==
  \A i \in 1 .. Len(open_inodes) :
    open_inodes[i].id = id =>
      \A j \in 1 .. Len(open_inodes') :
        open_inodes'[j].id = id =>
          open_inodes'[j].open_cnt = open_inodes[i].open_cnt - 1

\* C20: sys_chdir on a path that names a regular file returns false and
\* leaves the caller's current directory unchanged; sys_chdir on a path that
\* names a directory returns true, installs that directory as the current
\* directory and closes the previous one.
C20_Chdir ==
  [][\A s \in Sectors :
       /\ IsPathCall(ret'.data)
       /\ ret'.op = "sys_chdir"
       /\ ret'.sector # -1
       /\ ~MarkedRemoved(open_inodes, ret'.sector)
       /\ s # 0
       /\ s = lookup(entries, ret'.sector, ret'.before)
       => IF IsDirectory(s)
          THEN /\ ret'.val = 1
               /\ SectorOf(open_inodes', cur_dir') = s
               /\ s # SectorOf(open_inodes, cur_dir) => ClosedOnce(cur_dir)
          ELSE /\ ret'.val = 0
               /\ cur_dir' = cur_dir]_vars

\* -------------------------------------------------------------------- C21
\* The directory a thread is at work on between its dir_lookup and the end of
\* its directory step (0 for none): open and sys_chdir from the lookup to
\* dir_close, remove from the lookup to the return of dir_remove.
InDirectory(t) ==
  IF \/ sys_threads[t].pc \in {"opened", "looked"}
     \/ /\ sys_threads[t].pc \in {"scan", "insert"}
        /\ sys_threads[t].next \in {"opened", "looked"}
  THEN SectorOf(open_inodes, sys_threads[t].dir)
  ELSE 0

\* The step is thread t's dir_lookup, dir_add or dir_remove on the directory
\* in sector s.
DirectoryStep(t, s) ==
  /\ sys_threads[t].dir # 0
  /\ SectorOf(open_inodes, sys_threads[t].dir) = s
  /\ \/ /\ sys_threads[t].pc = "body"
        /\ sys_threads'[t].pc # "body"
        /\ ~ParentRemoved(t)
     \/ /\ sys_threads[t].pc = "looked"
        /\ sys_threads'[t].pc # "looked"

\* C21: no thread takes a dir_lookup, dir_add or dir_remove step on a
\* directory while another thread is at work on the same directory, and the
\* thread that takes the step holds file_sys_lock.
C21_DirectorySerialised ==
  [][\A t \in Threads, s \in Sectors :
       DirectoryStep(t, s) =>
         /\ \A u \in Threads \ {t} : InDirectory(u) # s
         /\ file_sys_lock' = t \/ file_sys_lock = t]_vars

\* ------------------------------------------ inode_write_at, by threads
\* inode_write_at in the steps between which another thread can run: the
\* malloc'ed copy of the on-disk inode is the thread's disk_inode, read before
\* extend_lock is taken and written back after it is released.

\* <<size, offset>> of the concurrent writes.
ExtendArgs == {<<2, 0>>, <<1, 3>>, <<1, IndirectStart>>, <<1, Capacity>>}

\* get_disk_inode (inode, disk_inode) and the test of deny_write_cnt
write_begin(t, sector, size, offset) ==
  /\ ~panicked
  /\ sys_threads[t].pc = "idle"
  /\ nops < MaxCalls
  /\ sector \in OpenFiles
  /\ \E e \in entries : e.sector = sector /\ e.name = <<"f">>
  /\ Let(get_disk_inode(Machine, sector),
         LAMBDA d :
           /\ Install(d.m)
           /\ sys_threads' =
                [sys_threads EXCEPT
                   ![t] = [@ EXCEPT !.op = "write", !.target = sector,
                                    !.size = size, !.offset = offset,
                                    !.disk_inode = d.h,
                                    !.pc = IF Inode(sector).deny_write_cnt # 0
                                           THEN "returned"
                                           ELSE "extend_lock"]])
  /\ nops' = nops + 1
  /\ UNCHANGED <<open_inodes, entries, ret, hist, fresh, nfiles, bc_threads,
                 latest, filesys_lock, file_sys_lock>>

\* lock_acquire (&inode->extend_lock)
write_lock(t) ==
  /\ ~panicked
  /\ sys_threads[t].pc = "extend_lock"
  /\ ~Inode(sys_threads[t].target).extend_lock
  /\ open_inodes' =
       [open_inodes EXCEPT
          ![Find(open_inodes, sys_threads[t].target)].extend_lock = TRUE]
  /\ sys_threads' = [sys_threads EXCEPT ![t].pc = "extend",
                                        ![t].held = @ \cup {"extend_lock"}]
  /\ UNCHANGED <<mvars, entries, ret, hist, fresh, nfiles, nops, bc_threads,
                 latest, filesys_lock, file_sys_lock>>

\* The growth under extend_lock and lock_release; a failed growth returns 0
\* with the lock held.
write_extend(t) ==
  /\ ~panicked
  /\ sys_threads[t].pc = "extend"
  /\ LET c == sys_threads[t]
         old_length == length_of(c.disk_inode)
         write_end == c.offset + c.size - 1
     IN Let(IF write_end > old_length - 1
            THEN inode_update_file_length(
                   Machine, SetWord(c.disk_inode, LENGTH_WORD, write_end + 1),
                   old_length, write_end)
            ELSE [m |-> Machine, h |-> c.disk_inode, ok |-> TRUE],
            LAMBDA g :
              /\ Install(g.m)
              /\ sys_threads' =
                   [sys_threads EXCEPT
                      ![t] = [@ EXCEPT !.disk_inode = g.h,
                                       !.pc = IF g.ok THEN "copy"
                                              ELSE "returned",
                                       !.held = IF g.ok
                                                THEN @ \ {"extend_lock"}
                                                ELSE @]]
              /\ open_inodes' =
                   [open_inodes EXCEPT
                      ![Find(open_inodes, c.target)].extend_lock = ~g.ok])
  /\ UNCHANGED <<entries, ret, hist, fresh, nfiles, nops, bc_threads, latest,
                 filesys_lock, file_sys_lock>>

\* The copy loop, with the thread's disk_inode
write_copy(t) ==
  /\ ~panicked
  /\ sys_threads[t].pc = "copy"
  /\ LET c == sys_threads[t]
     IN Let(write_loop(Machine, c.disk_inode, Data(t, c.size), c.size,
                       c.offset, 0),
            LAMBDA w :
              /\ Install(w.m)
              /\ sys_threads' =
                   [sys_threads EXCEPT
                      ![t] = [@ EXCEPT !.val = w.bytes_written,
                                       !.pc = "header"]])
  /\ UNCHANGED <<open_inodes, entries, ret, hist, fresh, nfiles, nops,
                 bc_threads, latest, filesys_lock, file_sys_lock>>

\* bc_write (inode->sector, disk_inode, 0, BLOCK_SECTOR_SIZE, 0) and the return
write_header(t) ==
  /\ ~panicked
  /\ sys_threads[t].pc = "header"
  /\ Install(bc_write(Machine, sys_threads[t].target,
                      sys_threads[t].disk_inode, 0))
  /\ sys_threads' = [sys_threads EXCEPT ![t].pc = "returned"]
  /\ UNCHANGED <<open_inodes, entries, ret, hist, fresh, nfiles, nops,
                 bc_threads, latest, filesys_lock, file_sys_lock>>

NextExtend ==
  \/ \E n \in InitSizes : Create(n)
  \/ \E s \in Sectors : Open(s)
  \/ \E t \in Threads, s \in Sectors, a \in ExtendArgs :
       write_begin(t, s, a[1], a[2])
  \/ \E t \in Threads : write_lock(t)
  \/ \E t \in Threads : write_extend(t)
  \/ \E t \in Threads : write_copy(t)
  \/ \E t \in Threads : write_header(t)

SpecExtend == Init /\ [][NextExtend]_vars

\* -------------------------------------------------------------------- C22
\* The writes of the threads that have returned with all their bytes written.
Written(s) ==
  {t \in Threads : /\ sys_threads[t].pc = "returned"
                   /\ sys_threads[t].target = s
                   /\ sys_threads[t].val = sys_threads[t].size}

\* Every thread that called inode_write_at on the file in sector s has
\* returned, and one of them at least with success.
AllReturned(s) ==
  /\ \A t \in Threads : sys_threads[t].pc \in {"idle", "returned"}
  /\ Written(s) # {}

\* C22: when the concurrent writers of an inode have all returned, the length
\* of the file is the greatest offset + size among the writes that succeeded
\* (or the length it had, if that is greater), and at no time are two
\* threads in the growth that extend_lock guards.
C22_ConcurrentLength ==
  /\ \A s \in Sectors :
       AllReturned(s) =>
         FileLength(s) =
           LET ends == {hist[s].made} \cup
                       {sys_threads[t].offset + sys_threads[t].size :
                          t \in Written(s)}
           IN CHOOSE x \in ends : \A y \in ends : y <= x
  /\ Cardinality({t \in Threads : sys_threads[t].pc = "extend"}) <= 1

\* -------------------------------------------------------------------- C23
\* C23: a filesys_create that returns false leaves the directory entries and
\* the free-map as they were before the call: the sectors that inode_create
\* allocated for initial_size are free again when dir_add has failed.
C23_CreateAtomic ==
  [][IsCall("filesys_create") /\ ret'.val = 0 =>
       /\ free_map' = free_map
       /\ entries' = entries]_vars

\* ------------------------------------------------ the locks a thread holds
\* Threads that write a file and create files: held is the set of locks a
\* thread owns.  The buffer-head locks are taken and released inside bc_read,
\* bc_write and bc_select_victim, which call nothing that takes a lock.

\* The calls of the threads that also create files.
MaxLockCalls == 2

\* filesys_create up to lock_acquire (&file_sys_lock)
filesys_create_lock(t) ==
  /\ ~panicked
  /\ sys_threads[t].pc \in {"idle", "returned"}
  /\ nops < MaxLockCalls
  /\ file_sys_lock = 0
  /\ file_sys_lock' = t
  /\ sys_threads' =
       [sys_threads EXCEPT ![t].pc = "create", ![t].op = "create",
                           ![t].held = @ \cup {"file_sys_lock"}]
  /\ UNCHANGED <<mvars, open_inodes, entries, ret, hist, fresh, nfiles, nops,
                 bc_threads, latest, filesys_lock>>

\* filesys_create from the lock to lock_release (&file_sys_lock)
filesys_create_unlock(t, name, initial_size) ==
  /\ ~panicked
  /\ sys_threads[t].pc = "create"
  /\ \E ub \in BeyondBlock :
       Returned("filesys_create", name,
                filesys_create_call(FileSys, sys_threads[t].cur_dir, name,
                                    initial_size, ub),
                TRUE)
  /\ file_sys_lock' = 0
  /\ sys_threads' =
       [sys_threads EXCEPT ![t].pc = "idle",
                           ![t].held = @ \ {"file_sys_lock"}]
  /\ UNCHANGED <<hist, fresh, nfiles, bc_threads, latest, filesys_lock>>

NextLock ==
  \/ \E n \in InitSizes : Create(n)
  \/ \E s \in Sectors : Open(s)
  \/ \E t \in Threads, s \in Sectors, a \in ExtendArgs :
       write_begin(t, s, a[1], a[2])
  \/ \E t \in Threads : write_lock(t)
  \/ \E t \in Threads : write_extend(t)
  \/ \E t \in Threads : write_copy(t)
  \/ \E t \in Threads : write_header(t)
  \/ \E t \in Threads : filesys_create_lock(t)
  \/ \E t \in Threads : filesys_create_unlock(t, <<"a">>, 0)

SpecLock == Init /\ [][NextLock]_vars

\* -------------------------------------------------------------------- C24
\* C24: a thread that acquires file_sys_lock holds no inode extension lock
\* and no buffer-head lock, and a thread that acquires an inode extension
\* lock holds no buffer-head lock.
C24_LockOrder ==
  [][\A t \in Threads :
       /\ "file_sys_lock" \in sys_threads'[t].held \ sys_threads[t].held =>
            sys_threads[t].held \cap {"extend_lock", "buffer_head"} = {}
       /\ "extend_lock" \in sys_threads'[t].held \ sys_threads[t].held =>
            "buffer_head" \notin sys_threads[t].held]_vars

\* ------------------------------------------- the buffer cache, one thread
\* bc_read and bc_write called by one thread on more sectors than the cache
\* has slots; latest is the flat array of sectors the calls are compared with.
MaxFlatOps == 5

FlatSectors == {ROOT_DIR_SECTOR} \cup (3 .. BUFFER_CACHE_ENTRY_NB + 2)

\* <<chunk_size, sector_ofs>> of the calls.
FlatArgs == {<<BLOCK_SECTOR_SIZE, 0>>, <<1, 3>>}

\* The sectors with a valid buffer head.
Resident == {buffer_head[i].sector : i \in {j \in Slots : buffer_head[j].valid}}

\* The record of a cache call: VAL is 1 when the call missed, OWNED the
\* sectors resident before it, DATA the bytes copied.
CacheCall(op, sector_idx, chunk_size, sector_ofs, data) ==
  [NoCall EXCEPT !.op = op, !.sector = sector_idx, !.size = chunk_size,
                 !.offset = sector_ofs, !.data = data,
                 !.val = IF bc_lookup(buffer_head, sector_idx) = -1 THEN 1
                         ELSE 0,
                 !.owned = Resident]

\* bc_read (sector_idx, buffer, 0, chunk_size, sector_ofs)
bc_read_call(sector_idx, chunk_size, sector_ofs) ==
  /\ ~panicked
  /\ nops < MaxFlatOps
  /\ Let(bc_read(Machine, sector_idx),
         LAMBDA r :
           /\ Install(r)
           /\ ret' = CacheCall("bc_read", sector_idx, chunk_size, sector_ofs,
                               SubSeq(Cached(r, sector_idx), sector_ofs + 1,
                                      sector_ofs + chunk_size)))
  /\ nops' = nops + 1
  /\ UNCHANGED <<open_inodes, entries, hist, fresh, nfiles, tvars>>

\* bc_write (sector_idx, buffer, 0, chunk_size, sector_ofs)
bc_write_call(sector_idx, chunk_size, sector_ofs) ==
  /\ ~panicked
  /\ nops < MaxFlatOps
  /\ LET buffer == Data(nops + 1, chunk_size)
     IN /\ Install(bc_write(Machine, sector_idx, buffer, sector_ofs))
        /\ ret' = CacheCall("bc_write", sector_idx, chunk_size, sector_ofs,
                            buffer)
        /\ latest' = [latest EXCEPT
                        ![sector_idx] = Patch(@, sector_ofs, buffer)]
  /\ nops' = nops + 1
  /\ UNCHANGED <<open_inodes, entries, hist, fresh, nfiles, bc_threads,
                 sys_threads, filesys_lock, file_sys_lock>>

NextFlat ==
  \/ \E s \in FlatSectors, a \in FlatArgs : bc_read_call(s, a[1], a[2])
  \/ \E s \in FlatSectors, a \in FlatArgs : bc_write_call(s, a[1], a[2])

SpecFlat == Init /\ [][NextFlat]_vars

\* -------------------------------------------------------------------- C25
\* Every sector reads as the flat array has it, and the bytes a bc_read
\* copied out are those of the flat array.
FlatArray ==
  /\ \A s \in Sectors : View(Machine, s) = latest[s]
  /\ ret.op = "bc_read" =>
       ret.data = SubSeq(latest[ret.sector], ret.offset + 1,
                         ret.offset + ret.size)

\* A slot that held a dirty sector and now holds another one: the device has
\* the bytes the slot held.
WrittenBack ==
  \A i \in Slots :
    /\ buffer_head[i].valid
    /\ buffer_head[i].dirty
    /\ buffer_head'[i].sector # buffer_head[i].sector
    => disk'[buffer_head[i].sector] = buffer_head[i].data

\* A miss on a full cache: one resident sector leaves, the requested one is
\* resident.
OneDisplaced ==
  IsCall("bc_read") \/ IsCall("bc_write") =>
    /\ ret'.sector \in Resident'
    /\ ret'.val = 1 /\ Cardinality(Resident) = BUFFER_CACHE_ENTRY_NB =>
         /\ Cardinality(Resident \ Resident') = 1
         /\ Resident' \ Resident = {ret'.sector}
    /\ ret'.val = 0 => Resident' = Resident

\* C25: with one thread, bc_read and bc_write over more sectors than the cache
\* has slots behave as reads and writes of a flat array of sectors: a read
\* returns the bytes last written (or the device's first content), a write of
\* part of a sector that misses keeps the other bytes, a dirty victim reaches
\* the device before its slot is used again, and a miss on a full cache
\* displaces one resident sector and leaves the requested one resident.
C25_FlatArray == []FlatArray /\ [][WrittenBack /\ OneDisplaced]_vars

\* A read that missed returned a sector that a partial write, itself a miss,
\* had changed and that was evicted since.
C25_Witness ==
  /\ ret.op = "bc_read"
  /\ ret.val = 1
  /\ ret.size = BLOCK_SECTOR_SIZE
  /\ ret.sector = 4
  /\ ret.data # BlankSector
  /\ \E i \in 1 .. BLOCK_SECTOR_SIZE : ret.data[i] = 9

\* ------------------------------------------------- bc_select_victim alone
\* bc_select_victim applied to every configuration of the buffer heads: each
\* slot empty or holding a sector, clean or dirty, its clock bit clear or set,
\* and the hand at any slot.
MaxClockOps == 2

ClockHeads(i) ==
  {[sector |-> -1, valid |-> FALSE, dirty |-> FALSE, clock_bit |-> c,
    data |-> Zeroes(BLOCK_SECTOR_SIZE)] : c \in BOOLEAN}
  \cup
  {[sector |-> i + 2, valid |-> TRUE, dirty |-> d, clock_bit |-> c,
    data |-> Formatted.dev[i + 2]] : c \in BOOLEAN, d \in BOOLEAN}

InitClock ==
  /\ buffer_head \in {bh \in [Slots -> UNION {ClockHeads(i) : i \in Slots}] :
                        \A i \in Slots : bh[i] \in ClockHeads(i)}
  /\ clock_hand \in Slots
  /\ disk = Formatted.dev
  /\ free_map = Formatted.fm
  /\ open_inodes = <<>>
  /\ entries = {}
  /\ panicked = FALSE
  /\ ret = NoCall
  /\ hist = [s \in Sectors |-> NoHist]
  /\ fresh = {}
  /\ nfiles = 0
  /\ nops = 0
  /\ bc_threads = [t \in Threads |-> IdleCall]
  /\ latest = [s \in Sectors |-> Formatted.dev[s]]
  /\ sys_threads = [t \in Threads |-> IdleSyscall]
  /\ filesys_lock = 0
  /\ file_sys_lock = 0

\* The slots the loop of bc_select_victim inspects, counted.
RECURSIVE clock_inspections(_, _)
clock_inspections(bh, hand) ==
  LET idx == IF hand = BUFFER_CACHE_ENTRY_NB THEN 0 ELSE hand
      next == IF hand + 1 = BUFFER_CACHE_ENTRY_NB THEN 0 ELSE hand + 1
  IN IF bh[idx].clock_bit
     THEN 1 + clock_inspections([bh EXCEPT ![idx].clock_bit = FALSE], next)
     ELSE 1

\* bc_select_victim (): VAL is the slot returned, SIZE the slots inspected.
bc_select_victim_call ==
  /\ ~panicked
  /\ nops < MaxClockOps
  /\ Let(bc_select_victim(Machine),
         LAMBDA v :
           /\ Install(v.m)
           /\ ret' = [NoCall EXCEPT
                        !.op = "bc_select_victim", !.val = v.idx,
                        !.size = clock_inspections(buffer_head, clock_hand)])
  /\ nops' = nops + 1
  /\ UNCHANGED <<open_inodes, entries, hist, fresh, nfiles, tvars>>

\* p_lookup->clock_bit = true: what bc_read and bc_write do to the head of a
\* sector they find.
bc_reference(i) ==
  /\ ~panicked
  /\ nops < MaxClockOps
  /\ buffer_head[i].valid
  /\ ~buffer_head[i].clock_bit
  /\ buffer_head' = [buffer_head EXCEPT ![i].clock_bit = TRUE]
  /\ ret' = [NoCall EXCEPT !.op = "reference", !.val = i]
  /\ nops' = nops + 1
  /\ UNCHANGED <<clock_hand, disk, free_map, panicked, open_inodes, entries,
                 hist, fresh, nfiles, tvars>>

NextClock ==
  \/ bc_select_victim_call
  \/ \E i \in Slots : bc_reference(i)

SpecClock == InitClock /\ [][NextClock]_vars

\* -------------------------------------------------------------------- C26
\* The place of slot i in the cyclic scan that starts at the hand.
ScanOrder(i) == (i - clock_hand) % BUFFER_CACHE_ENTRY_NB

\* The slots whose clock bit is clear.
ClearSlots == {i \in Slots : ~buffer_head[i].clock_bit}

\* C26: bc_select_victim scans the slots cyclically from clock_hand, clears
\* the clock bit of each slot it passes, returns the first slot whose bit is
\* clear and sets that bit, leaves clock_hand in [0, N), and inspects at most
\* N + 1 slots; a slot whose bit is set is never chosen while another slot
\* has its bit clear.
C26_ClockVictim ==
  [][IsCall("bc_select_victim") =>
       LET v == ret'.val
       IN /\ v \in Slots
          /\ ClearSlots # {} =>
               /\ v \in ClearSlots
               /\ \A i \in ClearSlots : ScanOrder(v) <= ScanOrder(i)
               /\ ret'.size = ScanOrder(v) + 1
          /\ ClearSlots = {} =>
               /\ v = clock_hand
               /\ ret'.size = BUFFER_CACHE_ENTRY_NB + 1
          /\ \A i \in Slots \ {v} :
               buffer_head'[i].clock_bit =
                 IF ClearSlots = {} \/ ScanOrder(i) < ScanOrder(v) THEN FALSE
                 ELSE buffer_head[i].clock_bit
          /\ buffer_head'[v].clock_bit
          /\ clock_hand' \in Slots
          /\ clock_hand' = (v + 1) % BUFFER_CACHE_ENTRY_NB
          /\ ret'.size <= BUFFER_CACHE_ENTRY_NB + 1]_vars

\* Every clock bit was set: the scan went once around and took the slot
\* under the hand, the other slot's bit cleared.
C26_Witness ==
  /\ ret.op = "bc_select_victim"
  /\ ret.size = BUFFER_CACHE_ENTRY_NB + 1
  /\ \E i \in Slots : ~buffer_head[i].clock_bit

\* -------------------------------------------------------------------- C27
\* C27: the byte a bc_read copies out of its slot is the byte of the sector it
\* reads (what the slot that maps the sector holds, else the device), and
\* when a bc_write copies into its slot, the slot maps the sector it writes
\* or is the empty victim it chose, and no other thread is at work in the
\* same slot for another sector: no concurrent miss has given the slot away.
C27_SlotNotStolen ==
  [][\A t \in Threads :
       /\ bc_threads[t].pc = "copy" /\ bc_threads'[t].pc = "idle" =>
            ret'.val = At(View(CacheMachine, bc_threads[t].sector),
                          bc_threads[t].ofs)
       /\ bc_threads[t].pc = "store" /\ bc_threads'[t].pc = "idle" =>
            /\ buffer_head[bc_threads[t].idx].sector
                 \in {bc_threads[t].sector, -1}
            /\ \A u \in Threads \ {t} :
                 /\ bc_threads[u].pc \in {"fill", "copy", "store"}
                 /\ bc_threads[u].idx = bc_threads[t].idx
                 => bc_threads[u].sector = bc_threads[t].sector]_vars

\* --------------------------------------------- free_map_allocate, by threads
\* filesys_create, filesys_create_dir and extending writes run by several
\* threads.  free_map_allocate (1, &sector) is the two steps of the bitmap,
\* the scan for a clear bit and the setting of the bit found, with no lock of
\* its own; what a call does after it is one stretch.

\* The name thread t creates.
ThreadName(t) == [i \in 1 .. t |-> "a"]

InstallFs(fs) ==
  /\ Install(fs.m)
  /\ open_inodes' = fs.list
  /\ entries' = fs.ents

\* filesys_create and filesys_create_dir up to free_map_allocate: parse_path
\* of a one-component name, and in filesys_create lock_acquire (&file_sys_lock)
filesys_enter(t, op) ==
  /\ ~panicked
  /\ sys_threads[t].pc = "idle"
  /\ nops < MaxLockCalls
  /\ op = "create" => file_sys_lock = 0
  /\ file_sys_lock' = IF op = "create" THEN t ELSE file_sys_lock
  /\ Let(open_sector(FileSys, SectorOf(open_inodes, sys_threads[t].cur_dir)),
         LAMBDA o :
           /\ InstallFs(o.fs)
           /\ sys_threads' =
                [sys_threads EXCEPT
                   ![t] = [@ EXCEPT !.op = op, !.pc = "scan_map",
                                    !.dir = o.id, !.name = ThreadName(t),
                                    !.held = IF op = "create"
                                             THEN @ \cup {"file_sys_lock"}
                                             ELSE @]])
  /\ nops' = nops + 1
  /\ UNCHANGED <<ret, hist, fresh, nfiles, bc_threads, latest, filesys_lock>>

\* free_map_allocate: the scan of the bitmap for a clear bit (0: none)
free_map_scan(t) ==
  /\ ~panicked
  /\ sys_threads[t].pc = "scan_map"
  /\ sys_threads' =
       [sys_threads EXCEPT
          ![t].pc = "set_map",
          ![t].found = IF Sectors \ free_map = {} THEN 0
                       ELSE Min(Sectors \ free_map)]
  /\ UNCHANGED <<mvars, open_inodes, entries, ret, hist, fresh, nfiles, nops,
                 bc_threads, latest, filesys_lock, file_sys_lock>>

\* free_map_allocate: the bit found is set and the sector handed to the caller
free_map_set(t) ==
  /\ ~panicked
  /\ sys_threads[t].pc = "set_map"
  /\ free_map' = IF sys_threads[t].found = 0 THEN free_map
                 ELSE free_map \cup {sys_threads[t].found}
  /\ sys_threads' = [sys_threads EXCEPT ![t].pc = "rest",
                                        ![t].got = sys_threads[t].found]
  /\ UNCHANGED <<buffer_head, clock_hand, disk, panicked, open_inodes, entries,
                 ret, hist, fresh, nfiles, nops, bc_threads, latest,
                 filesys_lock, file_sys_lock>>

\* The thread has returned from its call.
Returns(t) ==
  [sys_threads EXCEPT
     ![t] = [@ EXCEPT !.op = "none", !.pc = "idle", !.dir = 0, !.name = <<>>,
                      !.found = 0, !.got = 0,
                      !.held = @ \ {"file_sys_lock"}]]

\* filesys_create after free_map_allocate: inode_create, dir_add, the release
\* of the sector when one of them failed, dir_close and lock_release
filesys_create_rest(t, initial_size) ==
  /\ ~panicked
  /\ sys_threads[t].pc = "rest"
  /\ sys_threads[t].op = "create"
  /\ LET c == sys_threads[t]
         dir_sector == SectorOf(open_inodes, c.dir)
     IN Let(IF c.got # 0
            THEN inode_create(Machine, c.got, initial_size, 0)
            ELSE [m |-> Machine, ok |-> FALSE],
            LAMBDA i :
              Let(IF i.ok
                  THEN dir_add(Fresh(FileSys, i.m, c.got), dir_sector, c.name,
                               c.got)
                  ELSE [fs |-> [FileSys EXCEPT !.m = i.m], ok |-> FALSE],
                  LAMBDA d :
                    InstallFs(close_id(IF ~d.ok /\ c.got # 0
                                       THEN [d.fs EXCEPT
                                               !.m = free_map_release(@, c.got)]
                                       ELSE d.fs,
                                       c.dir, 0))))
  /\ file_sys_lock' = 0
  /\ sys_threads' = Returns(t)
  /\ UNCHANGED <<ret, hist, fresh, nfiles, nops, bc_threads, latest,
                 filesys_lock>>

\* filesys_create_dir after free_map_allocate: dir_create, dir_add, the new
\* directory's "." and "..", the release of the sector when one of them
\* failed, and the two dir_close
filesys_create_dir_rest(t) ==
  /\ ~panicked
  /\ sys_threads[t].pc = "rest"
  /\ sys_threads[t].op = "mkdir"
  /\ LET c == sys_threads[t]
         dir_sector == SectorOf(open_inodes, c.dir)
     IN Let(IF c.got # 0
            THEN inode_create(Machine, c.got, BLOCK_SECTOR_SIZE, 1)
            ELSE [m |-> Machine, ok |-> FALSE],
            LAMBDA i :
              Let(IF i.ok
                  THEN dir_add(Fresh(FileSys, i.m, c.got), dir_sector, c.name,
                               c.got)
                  ELSE [fs |-> [FileSys EXCEPT !.m = i.m], ok |-> FALSE],
                  LAMBDA d :
                    Let(IF d.ok
                        THEN open_new_dir(d.fs, c.got, dir_sector, TRUE)
                        ELSE [fs |-> d.fs, ok |-> FALSE, newDir |-> 0],
                        LAMBDA n :
                          InstallFs(
                            close_id(
                              close_id(IF ~n.ok /\ c.got # 0
                                       THEN [n.fs EXCEPT
                                               !.m = free_map_release(@, c.got)]
                                       ELSE n.fs,
                                       c.dir, 0),
                              n.newDir, 0)))))
  /\ sys_threads' = Returns(t)
  /\ UNCHANGED <<ret, hist, fresh, nfiles, nops, bc_threads, latest,
                 filesys_lock, file_sys_lock>>

NextAlloc ==
  \/ \E t \in Threads, op \in {"create", "mkdir"} : filesys_enter(t, op)
  \/ \E t \in Threads : free_map_scan(t)
  \/ \E t \in Threads : free_map_set(t)
  \/ \E t \in Threads, n \in InitSizes : filesys_create_rest(t, n)
  \/ \E t \in Threads : filesys_create_dir_rest(t)

SpecAlloc == Init /\ [][NextAlloc]_vars

\* -------------------------------------------------------------------- C28
\* The threads between the scan of the bitmap and the setting of the bit.
InAllocate == {t \in Threads : sys_threads[t].pc \in {"scan_map", "set_map"}}

\* C28: the scan-then-set of free_map_allocate is never run by two threads at
\* once, every thread inside it holds the one common lock, and no sector is
\* in the hands of two callers of free_map_allocate at the same time.
C28_AllocateAtomic ==
  /\ Cardinality(InAllocate) <= 1
  /\ \A t \in InAllocate : "file_sys_lock" \in sys_threads[t].held
  /\ \A t, u \in Threads :
       t # u /\ sys_threads[t].got # 0 =>
         sys_threads[t].got # sys_threads[u].got

\* ------------------------------------------------------ locate_byte alone
\* locate_byte applied to every byte position from 0 to two sectors behind
\* the addressable capacity.  The position is the OFFSET of the record; the
\* call leaves the class in BEFORE, index1 in VAL and index2 in SIZE.
Positions == 0 .. Capacity + 2 * BLOCK_SECTOR_SIZE - 1

InitLocate ==
  /\ buffer_head = Formatted.bh
  /\ clock_hand = Formatted.hand
  /\ disk = Formatted.dev
  /\ free_map = Formatted.fm
  /\ open_inodes = <<>>
  /\ entries = {}
  /\ panicked = FALSE
  /\ ret \in {[NoCall EXCEPT !.op = "pos", !.offset = pos] : pos \in Positions}
  /\ hist = [s \in Sectors |-> NoHist]
  /\ fresh = {}
  /\ nfiles = 0
  /\ nops = 0
  /\ bc_threads = [t \in Threads |-> IdleCall]
  /\ latest = [s \in Sectors |-> View(Formatted, s)]
  /\ sys_threads = [t \in Threads |-> IdleSyscall]
  /\ filesys_lock = 0
  /\ file_sys_lock = 0

locate_byte_call ==
  /\ ret.op = "pos"
  /\ Let(locate_byte(ret.offset),
         LAMBDA sec_loc :
           ret' = [ret EXCEPT !.op = "locate_byte",
                              !.before = <<sec_loc.directness>>,
                              !.val = sec_loc.index1,
                              !.size = sec_loc.index2])
  /\ nops' = nops + 1
  /\ UNCHANGED <<mvars, open_inodes, entries, hist, fresh, nfiles, tvars>>

NextLocate == locate_byte_call

SpecLocate == InitLocate /\ [][NextLocate]_vars

\* -------------------------------------------------------------------- C29
\* What the claim expects of the sector index s: <<class, index1, index2>>,
\* the indexes 0 where the class has none.
Expected(s) ==
  LET r == s - DIRECT_BLOCK_ENTRIES - INDIRECT_BLOCK_ENTRIES
  IN IF s < DIRECT_BLOCK_ENTRIES THEN <<"NORMAL_DIRECT", s, 0>>
     ELSE IF s < DIRECT_BLOCK_ENTRIES + INDIRECT_BLOCK_ENTRIES
     THEN <<"INDIRECT", s - DIRECT_BLOCK_ENTRIES, 0>>
     ELSE IF s * BLOCK_SECTOR_SIZE < Capacity
     THEN <<"DOUBLE_INDIRECT", r \div INDIRECT_BLOCK_ENTRIES,
            r % INDIRECT_BLOCK_ENTRIES>>
     ELSE <<"OUT_LIMIT", 0, 0>>

Located(pos) ==
  <<locate_byte(pos).directness, locate_byte(pos).index1,
    locate_byte(pos).index2>>

\* C29: locate_byte gives every byte position the class and the indexes of
\* its sector index (direct, indirect, double-indirect up to the capacity,
\* out of range behind it), every index lies inside its table, and two
\* positions in range with different sector indexes never get the same
\* class and indexes.
C29_LocateByte ==
  ret.op = "locate_byte" =>
    LET s == ret.offset \div BLOCK_SECTOR_SIZE
    IN /\ <<ret.before[1], ret.val, ret.size>> = Expected(s)
       /\ ret.before[1] = "NORMAL_DIRECT" =>
            ret.val \in 0 .. DIRECT_BLOCK_ENTRIES - 1
       /\ ret.before[1] \in {"INDIRECT", "DOUBLE_INDIRECT"} =>
            /\ ret.val \in 0 .. INDIRECT_BLOCK_ENTRIES - 1
            /\ ret.size \in 0 .. INDIRECT_BLOCK_ENTRIES - 1
       /\ ret.before[1] # "OUT_LIMIT" =>
            \A q \in Positions :
              q \div BLOCK_SECTOR_SIZE # s =>
                Located(q) # <<ret.before[1], ret.val, ret.size>>

\* The last byte position in range, in the last slot of the last second-level
\* index block.
C29_Witness ==
  /\ ret.op = "locate_byte"
  /\ ret.offset = Capacity - 1
  /\ ret.before = <<"DOUBLE_INDIRECT">>
  /\ ret.val = INDIRECT_BLOCK_ENTRIES - 1
  /\ ret.size = INDIRECT_BLOCK_ENTRIES - 1

\* ------------------------------------------------- reads at every offset
\* Files are created, opened and written by one thread, and read at offsets
\* inside, at the end of and behind the file.

\* <<size, offset>> of the reads.
ReadOffsets ==
  {<<2, 0>>, <<4, 3>>, <<2, BLOCK_SECTOR_SIZE>>,
   <<BLOCK_SECTOR_SIZE + 2, BLOCK_SECTOR_SIZE - 1>>,
   <<3, DoubleStart - 1>>, <<2, DoubleStart + 1>>}

NextRead ==
  \/ \E n \in InitSizes : Create(n)
  \/ \E s \in Sectors : Open(s)
  \/ \E s \in Sectors, a \in WriteArgs : WriteAt(s, a[1], a[2])
  \/ \E s \in Sectors, a \in ReadOffsets : ReadAt(s, a[1], a[2])

SpecRead == Init /\ [][NextRead]_vars

\* -------------------------------------------------------------------- C30
\* Every sector of the file in sector s below its length has a sector pointer.
AllMapped(s) ==
  LET h == View(Machine, s)
  IN \A k \in 0 .. (Capacity \div BLOCK_SECTOR_SIZE) :
       k * BLOCK_SECTOR_SIZE < length_of(h) =>
         byte_to_sector(Machine, h, k * BLOCK_SECTOR_SIZE).sec # 0

\* min (size, max (0, length - offset))
Readable(size, offset, length) ==
  MinOf(size, IF length - offset > 0 THEN length - offset ELSE 0)

\* C30: inode_read_at returns no byte at or behind the file length: it
\* returns min (size, max (0, length - offset)) bytes when every sector below
\* the length is mapped, 0 when the offset is at or behind the length, and it
\* changes no sector as the file system reads it: not the file length, not
\* the inode header, not a data sector.
C30_ReadWithinLength ==
  [][IsCall("read") =>
       /\ ret'.val <= Readable(ret'.size, ret'.offset, ret'.oldlen)
       /\ \A s \in Sectors :
            s = ret'.sector /\ AllMapped(s) =>
              ret'.val = Readable(ret'.size, ret'.offset, ret'.oldlen)
       /\ ret'.offset >= ret'.oldlen => ret'.val = 0
       /\ ret'.newlen = ret'.oldlen
       /\ \A s \in Sectors : View(Machine, s)' = View(Machine, s)]_vars

\* A read that began inside the last sector of a file with double-indirect
\* sectors and asked for more than was left.
C30_Witness ==
  /\ ret.op = "read"
  /\ ret.offset = DoubleStart - 1
  /\ ret.size = 3
  /\ ret.oldlen = DoubleStart + 1
  /\ ret.val = 2

\* -------------------------------------------------------------------- C31
\* The step is an inode_write_at on the file in sector s whose growth failed:
\* it returned 0 and left extend_lock held.
GrowthFailed(s) ==
  /\ IsCall("write")
  /\ ret'.sector = s
  /\ ret'.val = 0
  /\ ret'.deny = 0
  /\ ~Inode(s).extend_lock
  /\ open_inodes'[Find(open_inodes', s)].extend_lock

C32_LockBalance ==
  /\ \A t \in Threads :
       sys_threads[t].pc \in {"idle", "returned"} =>
         /\ sys_threads[t].held = {}
         /\ file_sys_lock # t
         /\ filesys_lock # t
  /\ \A i \in 1 .. Len(open_inodes) :
       open_inodes[i].extend_lock =>
         \E t \in Threads : /\ sys_threads[t].pc = "extend"
                            /\ sys_threads[t].target = open_inodes[i].sector

\* -------------------------------------------------------------------- C33
\* The open_cnt of the in-memory inodes, per sector (0 for a sector without
\* one).
RECURSIVE OpenCount(_, _)
OpenCount(list, s) ==
  IF list = <<>> THEN 0
  ELSE (IF Head(list).sector = s THEN Head(list).open_cnt ELSE 0)
         + OpenCount(Tail(list), s)

\* C33: a filesys_create, filesys_remove or filesys_create_dir that returns
\* failure (and had the memory it asked for) leaves the open_cnt of every
\* in-memory inode as it was before the call: the directory handles and
\* inodes opened on the way have been closed.
C33_HandleBalance ==
  [][/\ nops' # nops
     /\ ret'.op \in {"filesys_create", "filesys_remove", "filesys_create_dir"}
     /\ ret'.val = 0
     /\ ret'.malloc
     => \A s \in Sectors :
          OpenCount(open_inodes', s) = OpenCount(open_inodes, s)]_vars

\* ------------------------------------------- creation in a removed parent
\* filesys_create_dir run by one thread while another thread runs
\* filesys_remove.  sys_mkdir takes no lock and filesys_create_dir none, so
\* the call is the steps of its code: the resolution of the path with the
\* test of the parent, the two steps of free_map_allocate, and the rest with
\* dir_add.  filesys_remove and sys_chdir are one stretch each.

\* No thread is inside a call.
Quiet == \A t \in Threads : sys_threads[t].pc = "idle"

\* filesys_create_dir up to free_map_allocate: parse_path, and the return
\* when no directory was resolved or the parent is marked removed
filesys_create_dir_check(t, name) ==
  /\ ~panicked
  /\ sys_threads[t].pc = "idle"
  /\ nops < MaxPathOps
  /\ \E ub \in BeyondBlock :
       Let(parse_path_from(FileSys, sys_threads[t].cur_dir, name, ub),
           LAMBDA p :
             /\ InstallFs(p.fs)
             /\ sys_threads' =
                  IF p.dir = 0 \/ inode_is_removed(p.fs, p.dir)
                  THEN sys_threads
                  ELSE [sys_threads EXCEPT
                          ![t] = [@ EXCEPT !.op = "mkdir", !.pc = "scan_map",
                                           !.dir = p.dir,
                                           !.name = p.file_name]])
  /\ nops' = nops + 1
  /\ UNCHANGED <<ret, hist, fresh, nfiles, bc_threads, latest, filesys_lock,
                 file_sys_lock>>

\* filesys_remove (name) called by thread t in its working directory
filesys_remove_by(t, name) ==
  /\ ~panicked
  /\ sys_threads[t].pc = "idle"
  /\ nops < MaxPathOps
  /\ \E ub \in BeyondBlock :
       Returned("filesys_remove", name,
                filesys_remove_call(FileSys, sys_threads[t].cur_dir, name, ub),
                TRUE)
  /\ UNCHANGED <<pvars, sys_threads>>

NextRemoved ==
  \/ \E t \in Threads : filesys_create_dir_check(t, <<"a">>)
  \/ \E t \in Threads : free_map_scan(t)
  \/ \E t \in Threads : free_map_set(t)
  \/ \E t \in Threads : filesys_create_dir_rest(t)
  \/ Quiet /\ sys_chdir(<<"a">>)
  \/ \E t \in Threads : filesys_remove_by(t, <<"a">>)

SpecRemoved == Init /\ [][NextRemoved]_vars

\* -------------------------------------------------------------------- C34
\* C34: no step adds an entry to a directory whose inode is marked removed
\* when the step begins: the removal of the parent never comes between the
\* test of the parent and the dir_add of a creation.
C34_NoAddToRemoved ==
  [][\A e \in entries' \ entries : ~MarkedRemoved(open_inodes, e.dir)]_vars

====
